---- MODULE Spec2Model ----
(***************************************************************************)
(* A model of the IPv4 network layer of trippy                            *)
(* (crates/trippy-core/src/net/ipv4.rs): probe construction and dispatch, *)
(* and the reception of the responses.                                     *)
(*                                                                         *)
(* Packets are sequences of bytes (1-based in TLA+, the offsets given to  *)
(* the byte helpers are the 0-based offsets of the wire format).  A call  *)
(* of a dispatch function is one action: it computes the bytes, performs  *)
(* the socket calls against a socket whose failures are chosen by the     *)
(* environment, and leaves the list of socket calls and the returned      *)
(* value in the state.  A call of a receive function is one action too: it *)
(* takes what the socket holds and leaves the returned response.           *)
(***************************************************************************)
EXTENDS Integers, Sequences, FiniteSets, TLC

VARIABLES
    probe,            \* the Probe handed over by the scheduler
    src_addr,         \* source IPv4 address, four bytes
    dest_addr,        \* destination IPv4 address, four bytes
    packet_size,      \* PacketSize(u16)
    payload_pattern,  \* PayloadPattern(u8)
    ipv4_byte_order,  \* platform::Ipv4ByteOrder
    icmp_recv_socket, \* what the reads of the receive socket return, in order
    tracing_protocol, \* the tracing Protocol
    extension_mode,   \* IcmpExtensionParseMode
    tcp_probe_socket, \* the TCP probe socket polled by recv_tcp_socket
    overflow_checked, \* whether the build checks integer overflow
    parsed,           \* the datagrams read so far, each with what was returned
    pc,               \* the call that is due, "done" after it
    read,             \* what the read of the receive socket returned
    response,         \* the Option<Response> the call returned
    call,             \* the function called and its remaining arguments
    log,              \* the socket calls made by the call, in order
    result            \* the value the call returned

vars == <<probe, src_addr, dest_addr, packet_size, payload_pattern,
          ipv4_byte_order, icmp_recv_socket, tracing_protocol,
          extension_mode, tcp_probe_socket, overflow_checked, parsed, pc, read,
          call, log, result, response>>

inputs == <<probe, src_addr, dest_addr, packet_size, payload_pattern,
            ipv4_byte_order, tracing_protocol, extension_mode,
            overflow_checked>>

(***************************************************************************)
(* Bounds of the model.                                                    *)
(***************************************************************************)
\* packet sizes from one below the minimum up to the minimum plus this many
\* payload bytes are explored (and the sizes around the maximum)
MaxExtraPayload == 3
\* an ICMP error quotes up to this many bytes after the IPv4 header of the
\* probe
MaxQuoted == 20
\* packet sizes of the round trip from the minimum up to the minimum plus
\* this many
MaxEchoExtraPayload == 2

(***************************************************************************)
(* Program constants.                                                      *)
(***************************************************************************)
MAX_PACKET_SIZE == 1024
IPV4_MINIMUM_PACKET_SIZE == 20
ICMP_MINIMUM_PACKET_SIZE == 8
UDP_MINIMUM_PACKET_SIZE == 8
MAX_UDP_PACKET_BUF == MAX_PACKET_SIZE - IPV4_MINIMUM_PACKET_SIZE
MAX_UDP_PAYLOAD_BUF == MAX_UDP_PACKET_BUF - UDP_MINIMUM_PACKET_SIZE
MAX_ICMP_PACKET_BUF == MAX_PACKET_SIZE - IPV4_MINIMUM_PACKET_SIZE
MAX_ICMP_PAYLOAD_BUF == MAX_ICMP_PACKET_BUF - ICMP_MINIMUM_PACKET_SIZE
MIN_PACKET_SIZE_ICMP == IPV4_MINIMUM_PACKET_SIZE + ICMP_MINIMUM_PACKET_SIZE
MIN_PACKET_SIZE_UDP == IPV4_MINIMUM_PACKET_SIZE + UDP_MINIMUM_PACKET_SIZE
DONT_FRAGMENT == 16384
PARIS_CHECKSUM == 1
DUBLIN_IPV6_PAYLOAD_LENGTH == 2
IpProtocolIcmp == 1
IpProtocolUdp == 17
IcmpTypeEchoRequest == 8
U16 == 65536

\* Flags::contains
FlagsContains(flags, bit) == (flags \div bit) % 2 = 1

(***************************************************************************)
(* Byte buffers.                                                           *)
(***************************************************************************)
Zeros(n) == [i \in 1..n |-> 0]

Fill(b, n) == [i \in 1..n |-> b]

\* u16::to_be_bytes
ToBeBytes(v) == <<v \div 256, v % 256>>

\* u16::from_be_bytes
FromBeBytes(b) == b[1] * 256 + b[2]

\* buf[off .. off + len(bytes)].copy_from_slice(bytes)
SetBytes(buf, off, bytes) ==
    SubSeq(buf, 1, off) \o bytes \o SubSeq(buf, off + Len(bytes) + 1, Len(buf))

SetU8(buf, off, v) == SetBytes(buf, off, <<v>>)

SetU16(buf, off, v) == SetBytes(buf, off, ToBeBytes(v))

GetU16(buf, off) == buf[off + 1] * 256 + buf[off + 2]

\* &buf[off..]
From(buf, off) == SubSeq(buf, off + 1, Len(buf))

(***************************************************************************)
(* The Internet checksum (trippy_packet::checksum).                        *)
(***************************************************************************)
\* the 16-bit big-endian word at word index w (0-based) of data, which has
\* len bytes, a trailing odd byte being padded with a zero byte
WordAt(data, len, w) ==
    data[2 * w + 1] * 256 + (IF 2 * w + 2 <= len THEN data[2 * w + 2] ELSE 0)

\* the sum of the words lo..hi of data, the word at index skip left out
RECURSIVE SumRange(_, _, _, _, _)
SumRange(data, len, lo, hi, skip) ==
    IF lo > hi THEN 0
    ELSE IF lo = hi THEN (IF lo = skip THEN 0 ELSE WordAt(data, len, lo))
    ELSE LET mid == (lo + hi) \div 2
         IN SumRange(data, len, lo, mid, skip)
            + SumRange(data, len, mid + 1, hi, skip)

\* the sum of all 16-bit words of data, the word at index skip left out
SumWords(data, skip) ==
    LET len == Len(data)
    IN SumRange(data, len, 0, ((len + 1) \div 2) - 1, skip)

\* fold the carries of a 32-bit sum into 16 bits
RECURSIVE Fold(_)
Fold(sum) == IF sum >= U16 THEN Fold((sum % U16) + (sum \div U16)) ELSE sum

\* the one's complement of the folded sum
Finalize(sum) == (U16 - 1) - Fold(sum)

\* icmp_ipv4_checksum: over the whole ICMP message, the checksum word (index 1)
\* taken as zero
icmp_ipv4_checksum(data) == Finalize(SumWords(data, 1))

\* udp_ipv4_checksum: over the pseudo-header {src, dest, zero, protocol,
\* udp length} and the UDP message, the checksum word (index 3) taken as zero
udp_ipv4_checksum(data, src, dest) ==
    Finalize(SumWords(src, -1) + SumWords(dest, -1) + IpProtocolUdp + Len(data)
             + SumWords(data, 3))

(***************************************************************************)
(* Packet codecs (trippy_packet): the setters used by dispatch.            *)
(***************************************************************************)
\* Ipv4Packet
Ipv4SetVersion(buf, v) == SetU8(buf, 0, v * 16 + (buf[1] % 16))
Ipv4SetHeaderLength(buf, v) == SetU8(buf, 0, (buf[1] \div 16) * 16 + v)
Ipv4SetTotalLength(buf, v) == SetU16(buf, 2, v)
Ipv4SetIdentification(buf, v) == SetU16(buf, 4, v)
Ipv4SetFlagsAndFragmentOffset(buf, v) == SetU16(buf, 6, v)
Ipv4SetTtl(buf, v) == SetU8(buf, 8, v)
Ipv4SetProtocol(buf, v) == SetU8(buf, 9, v)
Ipv4SetSource(buf, a) == SetBytes(buf, 12, a)
Ipv4SetDestination(buf, a) == SetBytes(buf, 16, a)
Ipv4SetPayload(buf, p) == SetBytes(buf, IPV4_MINIMUM_PACKET_SIZE, p)

\* EchoRequestPacket
EchoSetIcmpType(buf, v) == SetU8(buf, 0, v)
EchoSetIcmpCode(buf, v) == SetU8(buf, 1, v)
EchoSetChecksum(buf, v) == SetU16(buf, 2, v)
EchoSetIdentifier(buf, v) == SetU16(buf, 4, v)
EchoSetSequence(buf, v) == SetU16(buf, 6, v)
EchoSetPayload(buf, p) == SetBytes(buf, ICMP_MINIMUM_PACKET_SIZE, p)

\* UdpPacket
UdpSetSource(buf, v) == SetU16(buf, 0, v)
UdpSetDestination(buf, v) == SetU16(buf, 2, v)
UdpSetLength(buf, v) == SetU16(buf, 4, v)
UdpSetChecksum(buf, v) == SetU16(buf, 6, v)
UdpGetChecksum(buf) == GetU16(buf, 6)
UdpSetPayload(buf, p) == SetBytes(buf, UDP_MINIMUM_PACKET_SIZE, p)
UdpPayload(buf) == From(buf, UDP_MINIMUM_PACKET_SIZE)

(***************************************************************************)
(* Platform adapter (net::platform).                                       *)
(***************************************************************************)
\* Ipv4ByteOrder::adjust_length: the identity for Network, a byte swap for Host
adjust_length(order, v) ==
    IF order = "Network" THEN v ELSE (v % 256) * 256 + (v \div 256)

(***************************************************************************)
(* Packet construction.                                                    *)
(***************************************************************************)
icmp_payload_size(size) == size - ICMP_MINIMUM_PACKET_SIZE - IPV4_MINIMUM_PACKET_SIZE

udp_payload_size(size) == size - UDP_MINIMUM_PACKET_SIZE - IPV4_MINIMUM_PACKET_SIZE

\* a variant of make_echo_request_icmp_packet that fills the payload from a
\* zeroed buffer instead of the pattern
make_echo_request_icmp_packet_NoPattern(identifier, sequence, payload_size, pattern) ==
    LET size == ICMP_MINIMUM_PACKET_SIZE + payload_size
        b0 == Zeros(size)
        b1 == EchoSetIcmpType(b0, IcmpTypeEchoRequest)
        b2 == EchoSetIcmpCode(b1, 0)
        b3 == EchoSetIdentifier(b2, identifier)
        b5 == EchoSetSequence(b3, sequence)
    IN EchoSetChecksum(b5, icmp_ipv4_checksum(b5))

\* make_echo_request_icmp_packet: the bytes of the EchoRequest
make_echo_request_icmp_packet(identifier, sequence, payload_size, pattern) ==
    LET payload_buf == Fill(pattern, MAX_ICMP_PAYLOAD_BUF)
        size == ICMP_MINIMUM_PACKET_SIZE + payload_size
        b0 == Zeros(size)
        b1 == EchoSetIcmpType(b0, IcmpTypeEchoRequest)
        b2 == EchoSetIcmpCode(b1, 0)
        b3 == EchoSetIdentifier(b2, identifier)
        b4 == EchoSetPayload(b3, SubSeq(payload_buf, 1, payload_size))
        b5 == EchoSetSequence(b4, sequence)
    IN EchoSetChecksum(b5, icmp_ipv4_checksum(b5))

\* a variant of make_udp_packet that computes the checksum before the payload
\* is written
make_udp_packet_ChecksumEarly(src, dest, src_port, dest_port, payload) ==
    LET udp_packet_size == UDP_MINIMUM_PACKET_SIZE + Len(payload)
        b0 == Zeros(udp_packet_size)
        b1 == UdpSetSource(b0, src_port)
        b2 == UdpSetDestination(b1, dest_port)
        b3 == UdpSetLength(b2, udp_packet_size % U16)
        b4 == UdpSetChecksum(b3, udp_ipv4_checksum(b3, src, dest))
    IN UdpSetPayload(b4, payload)

\* make_udp_packet: the bytes of the UDP datagram
make_udp_packet(src, dest, src_port, dest_port, payload) ==
    LET udp_packet_size == UDP_MINIMUM_PACKET_SIZE + Len(payload)
        b0 == Zeros(udp_packet_size)
        b1 == UdpSetSource(b0, src_port)
        b2 == UdpSetDestination(b1, dest_port)
        b3 == UdpSetLength(b2, udp_packet_size % U16)
        b4 == UdpSetPayload(b3, payload)
    IN UdpSetChecksum(b4, udp_ipv4_checksum(b4, src, dest))

\* a variant of make_ipv4_packet that writes DONT_FRAGMENT without adjusting
\* it to the byte order
make_ipv4_packet_FlagsNotAdjusted(order, protocol, src, dest, ttl, identification, payload) ==
    LET ipv4_total_length == (IPV4_MINIMUM_PACKET_SIZE + Len(payload)) % U16
        ipv4_total_length_header == adjust_length(order, ipv4_total_length)
        b0 == Zeros(ipv4_total_length)
        b1 == Ipv4SetVersion(b0, 4)
        b2 == Ipv4SetHeaderLength(b1, 5)
        b3 == Ipv4SetTotalLength(b2, ipv4_total_length_header)
        b4 == Ipv4SetTtl(b3, ttl)
        b5 == Ipv4SetProtocol(b4, protocol)
        b6 == Ipv4SetSource(b5, src)
        b7 == Ipv4SetDestination(b6, dest)
        b8 == Ipv4SetPayload(b7, payload)
        b9 == Ipv4SetIdentification(b8, identification)
    IN Ipv4SetFlagsAndFragmentOffset(b9, DONT_FRAGMENT)

\* a variant of make_ipv4_packet that also computes and writes the header
\* checksum
make_ipv4_packet_WithChecksum(order, protocol, src, dest, ttl, identification, payload) ==
    LET ipv4_total_length == (IPV4_MINIMUM_PACKET_SIZE + Len(payload)) % U16
        ipv4_total_length_header == adjust_length(order, ipv4_total_length)
        ipv4_flags_and_fragment_offset_header == adjust_length(order, DONT_FRAGMENT)
        b0 == Zeros(ipv4_total_length)
        b1 == Ipv4SetVersion(b0, 4)
        b2 == Ipv4SetHeaderLength(b1, 5)
        b3 == Ipv4SetTotalLength(b2, ipv4_total_length_header)
        b4 == Ipv4SetTtl(b3, ttl)
        b5 == Ipv4SetProtocol(b4, protocol)
        b6 == Ipv4SetSource(b5, src)
        b7 == Ipv4SetDestination(b6, dest)
        b8 == Ipv4SetPayload(b7, payload)
        b9 == Ipv4SetIdentification(b8, identification)
        b10 == Ipv4SetFlagsAndFragmentOffset(b9, ipv4_flags_and_fragment_offset_header)
    IN SetU16(b10, 10,
              Finalize(SumWords(SubSeq(b10, 1, IPV4_MINIMUM_PACKET_SIZE), 5)))

\* make_ipv4_packet: the bytes of the IPv4 packet; the header checksum is not set
make_ipv4_packet(order, protocol, src, dest, ttl, identification, payload) ==
    LET ipv4_total_length == (IPV4_MINIMUM_PACKET_SIZE + Len(payload)) % U16
        ipv4_total_length_header == adjust_length(order, ipv4_total_length)
        ipv4_flags_and_fragment_offset_header == adjust_length(order, DONT_FRAGMENT)
        b0 == Zeros(ipv4_total_length)
        b1 == Ipv4SetVersion(b0, 4)
        b2 == Ipv4SetHeaderLength(b1, 5)
        b3 == Ipv4SetTotalLength(b2, ipv4_total_length_header)
        b4 == Ipv4SetTtl(b3, ttl)
        b5 == Ipv4SetProtocol(b4, protocol)
        b6 == Ipv4SetSource(b5, src)
        b7 == Ipv4SetDestination(b6, dest)
        b8 == Ipv4SetPayload(b7, payload)
        b9 == Ipv4SetIdentification(b8, identification)
    IN Ipv4SetFlagsAndFragmentOffset(b9, ipv4_flags_and_fragment_offset_header)

(***************************************************************************)
(* The socket (net::socket::Socket).  A call on a socket is recorded with  *)
(* its arguments and its outcome; the operations named in fails return an  *)
(* error.  sock is "caller" for the socket handed in by the caller and     *)
(* "new" for a socket the call created itself.                             *)
(***************************************************************************)
NoBuf == <<>>
NoAddr == <<>>

SocketAddr(ip, port) == <<ip, port>>

SocketCall(sock, op, buf, addr, val, fails) ==
    [sock |-> sock, op |-> op, buf |-> buf, addr |-> addr, val |-> val,
     ok |-> op \notin fails]

Ok(socket) == [tag |-> "Ok", socket |-> socket]

Err(kind) == [tag |-> kind, socket |-> "none"]

\* net::common::process_result: the result of bind and connect is passed on
process_result(ok) == ok

(***************************************************************************)
(* Dispatch.  Each operator yields the socket calls made and the returned  *)
(* value.                                                                  *)
(***************************************************************************)
\* a variant of dispatch_icmp_probe that sends again after a failed send_to
dispatch_icmp_probe_Retry(p, src, dest, size, pattern, order, fails) ==
    IF ~(size \in MIN_PACKET_SIZE_ICMP..MAX_PACKET_SIZE)
    THEN [log |-> <<>>, result |-> Err("InvalidPacketSize")]
    ELSE LET echo_request ==
                 make_echo_request_icmp_packet(p.identifier, p.sequence,
                                               icmp_payload_size(size), pattern)
             ipv4 == make_ipv4_packet(order, IpProtocolIcmp, src, dest, p.ttl, 0,
                                      echo_request)
             remote_addr == SocketAddr(dest, 0)
             send == SocketCall("caller", "send_to", ipv4, remote_addr, 0, fails)
         IN [log |-> IF send.ok THEN <<send>> ELSE <<send, send>>,
             result |-> IF send.ok THEN Ok("none") ELSE Err("IoError")]

dispatch_icmp_probe(p, src, dest, size, pattern, order, fails) ==
    IF ~(size \in MIN_PACKET_SIZE_ICMP..MAX_PACKET_SIZE)
    THEN [log |-> <<>>, result |-> Err("InvalidPacketSize")]
    ELSE LET echo_request ==
                 make_echo_request_icmp_packet(p.identifier, p.sequence,
                                               icmp_payload_size(size), pattern)
             ipv4 == make_ipv4_packet(order, IpProtocolIcmp, src, dest, p.ttl, 0,
                                      echo_request)
             remote_addr == SocketAddr(dest, 0)
             send == SocketCall("caller", "send_to", ipv4, remote_addr, 0, fails)
         IN [log |-> <<send>>,
             result |-> IF send.ok THEN Ok("none") ELSE Err("IoError")]

\* a variant of dispatch_udp_probe_raw that does not exchange checksum and
\* payload for Paris
dispatch_udp_probe_raw_NoSwap(p, src, dest, payload, order, fails) ==
    LET payload_paris == ToBeBytes(p.sequence)
        paris == FlagsContains(p.flags, PARIS_CHECKSUM)
        payload1 == IF paris THEN payload_paris ELSE payload
        udp == make_udp_packet(src, dest, p.src_port, p.dest_port, payload1)
        ipv4 == make_ipv4_packet(order, IpProtocolUdp, src, dest, p.ttl,
                                 p.identifier, udp)
        remote_addr == SocketAddr(dest, p.dest_port)
        send == SocketCall("caller", "send_to", ipv4, remote_addr, 0, fails)
    IN [log |-> <<send>>,
        result |-> IF send.ok THEN Ok("none") ELSE Err("IoError")]

\* a variant of dispatch_udp_probe_raw that puts the sequence in front of the
\* pattern payload for Paris instead of replacing it
dispatch_udp_probe_raw_ParisPrefix(p, src, dest, payload, order, fails) ==
    LET payload_paris == ToBeBytes(p.sequence)
        paris == FlagsContains(p.flags, PARIS_CHECKSUM)
        payload1 == IF paris THEN payload_paris \o payload ELSE payload
        udp0 == make_udp_packet(src, dest, p.src_port, p.dest_port, payload1)
        checksum == ToBeBytes(UdpGetChecksum(udp0))
        payload2 == FromBeBytes(SubSeq(UdpPayload(udp0), 1, 2))
        udp == IF paris
               THEN UdpSetPayload(UdpSetChecksum(udp0, payload2), checksum)
               ELSE udp0
        ipv4 == make_ipv4_packet(order, IpProtocolUdp, src, dest, p.ttl,
                                 p.identifier, udp)
        remote_addr == SocketAddr(dest, p.dest_port)
        send == SocketCall("caller", "send_to", ipv4, remote_addr, 0, fails)
    IN [log |-> <<send>>,
        result |-> IF send.ok THEN Ok("none") ELSE Err("IoError")]

\* a variant of dispatch_udp_probe_raw that writes the identifier into the
\* IPv4 identification only when DUBLIN_IPV6_PAYLOAD_LENGTH is set
dispatch_udp_probe_raw_DublinOnly(p, src, dest, payload, order, fails) ==
    LET payload_paris == ToBeBytes(p.sequence)
        paris == FlagsContains(p.flags, PARIS_CHECKSUM)
        payload1 == IF paris THEN payload_paris ELSE payload
        udp0 == make_udp_packet(src, dest, p.src_port, p.dest_port, payload1)
        checksum == ToBeBytes(UdpGetChecksum(udp0))
        payload2 == FromBeBytes(SubSeq(UdpPayload(udp0), 1, 2))
        udp == IF paris
               THEN UdpSetPayload(UdpSetChecksum(udp0, payload2), checksum)
               ELSE udp0
        ipv4 == make_ipv4_packet(order, IpProtocolUdp, src, dest, p.ttl,
                                 IF FlagsContains(p.flags, DUBLIN_IPV6_PAYLOAD_LENGTH)
                                 THEN p.identifier ELSE 0,
                                 udp)
        remote_addr == SocketAddr(dest, p.dest_port)
        send == SocketCall("caller", "send_to", ipv4, remote_addr, 0, fails)
    IN [log |-> <<send>>,
        result |-> IF send.ok THEN Ok("none") ELSE Err("IoError")]

dispatch_udp_probe_raw(p, src, dest, payload, order, fails) ==
    LET payload_paris == ToBeBytes(p.sequence)
        paris == FlagsContains(p.flags, PARIS_CHECKSUM)
        payload1 == IF paris THEN payload_paris ELSE payload
        udp0 == make_udp_packet(src, dest, p.src_port, p.dest_port, payload1)
        checksum == ToBeBytes(UdpGetChecksum(udp0))
        payload2 == FromBeBytes(SubSeq(UdpPayload(udp0), 1, 2))
        udp == IF paris
               THEN UdpSetPayload(UdpSetChecksum(udp0, payload2), checksum)
               ELSE udp0
        ipv4 == make_ipv4_packet(order, IpProtocolUdp, src, dest, p.ttl,
                                 p.identifier, udp)
        remote_addr == SocketAddr(dest, p.dest_port)
        send == SocketCall("caller", "send_to", ipv4, remote_addr, 0, fails)
    IN [log |-> <<send>>,
        result |-> IF send.ok THEN Ok("none") ELSE Err("IoError")]

\* a variant of dispatch_udp_probe_non_raw that ignores the result of set_ttl
dispatch_udp_probe_non_raw_TtlIgnored(p, src, dest, payload, fails) ==
    LET local_addr == SocketAddr(src, p.src_port)
        remote_addr == SocketAddr(dest, p.dest_port)
        new == SocketCall("new", "new_udp_send_socket_ipv4", NoBuf, NoAddr, 0, fails)
        bind == SocketCall("new", "bind", NoBuf, local_addr, 0, fails)
        set_ttl == SocketCall("new", "set_ttl", NoBuf, NoAddr, p.ttl, fails)
        send == SocketCall("new", "send_to", payload, remote_addr, 0, fails)
    IN IF ~new.ok THEN [log |-> <<new>>, result |-> Err("IoError")]
       ELSE IF ~process_result(bind.ok)
       THEN [log |-> <<new, bind>>, result |-> Err("IoError")]
       ELSE IF ~send.ok
       THEN [log |-> <<new, bind, set_ttl, send>>, result |-> Err("IoError")]
       ELSE [log |-> <<new, bind, set_ttl, send>>, result |-> Ok("none")]

dispatch_udp_probe_non_raw(p, src, dest, payload, fails) ==
    LET local_addr == SocketAddr(src, p.src_port)
        remote_addr == SocketAddr(dest, p.dest_port)
        new == SocketCall("new", "new_udp_send_socket_ipv4", NoBuf, NoAddr, 0, fails)
        bind == SocketCall("new", "bind", NoBuf, local_addr, 0, fails)
        set_ttl == SocketCall("new", "set_ttl", NoBuf, NoAddr, p.ttl, fails)
        send == SocketCall("new", "send_to", payload, remote_addr, 0, fails)
    IN IF ~new.ok THEN [log |-> <<new>>, result |-> Err("IoError")]
       ELSE IF ~process_result(bind.ok)
       THEN [log |-> <<new, bind>>, result |-> Err("IoError")]
       ELSE IF ~set_ttl.ok
       THEN [log |-> <<new, bind, set_ttl>>, result |-> Err("IoError")]
       ELSE IF ~send.ok
       THEN [log |-> <<new, bind, set_ttl, send>>, result |-> Err("IoError")]
       ELSE [log |-> <<new, bind, set_ttl, send>>, result |-> Ok("none")]

\* a variant of dispatch_udp_probe that checks the packet size against the
\* IPv4 header size only
dispatch_udp_probe_HeaderSizeOnly(p, src, dest, privilege_mode, size, pattern, order, fails) ==
    IF ~(size \in IPV4_MINIMUM_PACKET_SIZE..MAX_PACKET_SIZE)
    THEN [log |-> <<>>, result |-> Err("InvalidPacketSize")]
    ELSE LET payload_size == udp_payload_size(size)
             payload == SubSeq(Fill(pattern, MAX_UDP_PAYLOAD_BUF), 1, payload_size)
         IN IF privilege_mode = "Privileged"
            THEN dispatch_udp_probe_raw(p, src, dest, payload, order, fails)
            ELSE dispatch_udp_probe_non_raw(p, src, dest, payload, fails)

dispatch_udp_probe(p, src, dest, privilege_mode, size, pattern, order, fails) ==
    IF ~(size \in MIN_PACKET_SIZE_UDP..MAX_PACKET_SIZE)
    THEN [log |-> <<>>, result |-> Err("InvalidPacketSize")]
    ELSE LET payload_size == udp_payload_size(size)
             payload == SubSeq(Fill(pattern, MAX_UDP_PAYLOAD_BUF), 1, payload_size)
         IN IF privilege_mode = "Privileged"
            THEN dispatch_udp_probe_raw(p, src, dest, payload, order, fails)
            ELSE dispatch_udp_probe_non_raw(p, src, dest, payload, fails)

\* a variant of dispatch_tcp_probe that ignores the result of bind
dispatch_tcp_probe_BindIgnored(p, src, dest, tos, fails) ==
    LET new == SocketCall("new", "new_stream_socket_ipv4", NoBuf, NoAddr, 0, fails)
        local_addr == SocketAddr(src, p.src_port)
        bind == SocketCall("new", "bind", NoBuf, local_addr, 0, fails)
        set_ttl == SocketCall("new", "set_ttl", NoBuf, NoAddr, p.ttl, fails)
        set_tos == SocketCall("new", "set_tos", NoBuf, NoAddr, tos, fails)
        remote_addr == SocketAddr(dest, p.dest_port)
        connect == SocketCall("new", "connect", NoBuf, remote_addr, 0, fails)
    IN IF ~new.ok THEN [log |-> <<new>>, result |-> Err("IoError")]
       ELSE IF ~set_ttl.ok
       THEN [log |-> <<new, bind, set_ttl>>, result |-> Err("IoError")]
       ELSE IF ~set_tos.ok
       THEN [log |-> <<new, bind, set_ttl, set_tos>>, result |-> Err("IoError")]
       ELSE IF ~process_result(connect.ok)
       THEN [log |-> <<new, bind, set_ttl, set_tos, connect>>,
             result |-> Err("IoError")]
       ELSE [log |-> <<new, bind, set_ttl, set_tos, connect>>,
             result |-> Ok("new")]

dispatch_tcp_probe(p, src, dest, tos, fails) ==
    LET new == SocketCall("new", "new_stream_socket_ipv4", NoBuf, NoAddr, 0, fails)
        local_addr == SocketAddr(src, p.src_port)
        bind == SocketCall("new", "bind", NoBuf, local_addr, 0, fails)
        set_ttl == SocketCall("new", "set_ttl", NoBuf, NoAddr, p.ttl, fails)
        set_tos == SocketCall("new", "set_tos", NoBuf, NoAddr, tos, fails)
        remote_addr == SocketAddr(dest, p.dest_port)
        connect == SocketCall("new", "connect", NoBuf, remote_addr, 0, fails)
    IN IF ~new.ok THEN [log |-> <<new>>, result |-> Err("IoError")]
       ELSE IF ~process_result(bind.ok)
       THEN [log |-> <<new, bind>>, result |-> Err("IoError")]
       ELSE IF ~set_ttl.ok
       THEN [log |-> <<new, bind, set_ttl>>, result |-> Err("IoError")]
       ELSE IF ~set_tos.ok
       THEN [log |-> <<new, bind, set_ttl, set_tos>>, result |-> Err("IoError")]
       ELSE IF ~process_result(connect.ok)
       THEN [log |-> <<new, bind, set_ttl, set_tos, connect>>,
             result |-> Err("IoError")]
       ELSE [log |-> <<new, bind, set_ttl, set_tos, connect>>,
             result |-> Ok("new")]

(***************************************************************************)
(* Parsing views (trippy_packet): new_view fails with PacketTooSmall on a  *)
(* buffer below the minimum size; the getters read a field at its offset.  *)
(***************************************************************************)
TCP_MINIMUM_PACKET_SIZE == 20
IpProtocolTcp == 6
IcmpTypeEchoReply == 0
IcmpTypeDestinationUnreachable == 3
IcmpTypeTimeExceeded == 11
\* the size of the original datagram assumed when the length field is unset
ICMP_ORIG_DATAGRAM_MIN_LENGTH == 128
EXTENSION_HEADER_SIZE == 4
EXTENSION_OBJECT_HEADER_SIZE == 4
EXTENSION_VERSION == 2
ClassNumMpls == 1
MPLS_LABEL_STACK_MEMBER_SIZE == 4

Ipv4GetIdentification(buf) == GetU16(buf, 4)
Ipv4GetProtocol(buf) == buf[10]
Ipv4GetSource(buf) == SubSeq(buf, 13, 16)
Ipv4GetDestination(buf) == SubSeq(buf, 17, 20)
Ipv4Payload(buf) == From(buf, IPV4_MINIMUM_PACKET_SIZE)

IcmpGetIcmpType(buf) == buf[1]
IcmpGetIcmpCode(buf) == buf[2]

\* IcmpTimeExceededCode::from(IcmpCode)
IcmpTimeExceededCodeFrom(code) ==
    CASE code = 0 -> "TtlExpired"
      [] code = 1 -> "FragmentReassembly"
      [] OTHER -> "Unknown"

EchoGetIdentifier(buf) == GetU16(buf, 4)
EchoGetSequence(buf) == GetU16(buf, 6)

UdpGetSource(buf) == GetU16(buf, 0)
UdpGetDestination(buf) == GetU16(buf, 2)
UdpGetLength(buf) == GetU16(buf, 4)

TcpGetSource(buf) == GetU16(buf, 0)
TcpGetDestination(buf) == GetU16(buf, 2)

\* TimeExceededPacket and DestinationUnreachablePacket: the length field of
\* RFC 4884 (in 32-bit words) and everything after the 8-byte header
IcmpErrorGetLength(buf) == buf[6]
IcmpErrorPayloadRaw(buf) == From(buf, ICMP_MINIMUM_PACKET_SIZE)

\* the extension header is sound: version 2 and a checksum that verifies over
\* the whole extension structure
ExtensionHeaderValid(ext) ==
    /\ Len(ext) >= EXTENSION_HEADER_SIZE
    /\ ext[1] \div 16 = EXTENSION_VERSION
    /\ Finalize(SumWords(ext, 1)) = GetU16(ext, 2)

\* where the original datagram ends: the length field when it is set to 128
\* bytes or more, 128 bytes otherwise
OrigDatagramLength(buf) ==
    IF IcmpErrorGetLength(buf) * 4 >= ICMP_ORIG_DATAGRAM_MIN_LENGTH
    THEN IcmpErrorGetLength(buf) * 4
    ELSE ICMP_ORIG_DATAGRAM_MIN_LENGTH

\* the body is long enough to hold an extension structure after the original
\* datagram
HasExtensionPart(buf) ==
    Len(IcmpErrorPayloadRaw(buf)) > OrigDatagramLength(buf)

\* payload(): the original datagram, without the extension structure
IcmpErrorPayload(buf) ==
    IF HasExtensionPart(buf)
    THEN SubSeq(IcmpErrorPayloadRaw(buf), 1, OrigDatagramLength(buf))
    ELSE IcmpErrorPayloadRaw(buf)

None == [tag |-> "None"]
Some(v) == [tag |-> "Some", value |-> v]

\* extension(): the bytes of the extension structure, if there is a sound one
IcmpErrorExtension(buf) ==
    IF HasExtensionPart(buf)
       /\ ExtensionHeaderValid(From(IcmpErrorPayloadRaw(buf), OrigDatagramLength(buf)))
    THEN Some(From(IcmpErrorPayloadRaw(buf), OrigDatagramLength(buf)))
    ELSE None

Pass(v) == [ok |-> TRUE, value |-> v]
Fail(kind) == [ok |-> FALSE, err |-> kind]

\* one entry of an MPLS label stack: label (20 bits), exp (3), bos (1), ttl (8)
MplsLabelStackMember(b) ==
    [label |-> b[1] * 4096 + b[2] * 16 + b[3] \div 16,
     exp |-> (b[3] \div 2) % 8,
     bos |-> b[3] % 2,
     ttl |-> b[4]]

RECURSIVE MplsLabelStack(_)
MplsLabelStack(body) ==
    IF body = <<>> THEN <<>>
    ELSE <<MplsLabelStackMember(SubSeq(body, 1, MPLS_LABEL_STACK_MEMBER_SIZE))>>
         \o MplsLabelStack(From(body, MPLS_LABEL_STACK_MEMBER_SIZE))

\* an extension object {length, class_num, c_type, body} is malformed when its
\* length does not cover its header or runs past the structure, or when an
\* MPLS body is not a whole number of label entries
ObjectMalformed(objs) ==
    \/ Len(objs) < EXTENSION_OBJECT_HEADER_SIZE
    \/ GetU16(objs, 0) < EXTENSION_OBJECT_HEADER_SIZE
    \/ GetU16(objs, 0) > Len(objs)
    \/ /\ objs[3] = ClassNumMpls
       /\ \/ GetU16(objs, 0) = EXTENSION_OBJECT_HEADER_SIZE
          \/ (GetU16(objs, 0) - EXTENSION_OBJECT_HEADER_SIZE)
                 % MPLS_LABEL_STACK_MEMBER_SIZE # 0

ExtensionObject(objs) ==
    LET body == SubSeq(objs, EXTENSION_OBJECT_HEADER_SIZE + 1, GetU16(objs, 0))
    IN IF objs[3] = ClassNumMpls
       THEN [kind |-> "Mpls", class_num |-> objs[3], c_type |-> objs[4],
             members |-> MplsLabelStack(body)]
       ELSE [kind |-> "Unknown", class_num |-> objs[3], c_type |-> objs[4],
             members |-> body]

RECURSIVE ExtensionObjects(_)
ExtensionObjects(objs) ==
    IF objs = <<>> THEN Pass(<<>>)
    ELSE IF ObjectMalformed(objs) THEN Fail("ExtensionParseError")
    ELSE LET rest == ExtensionObjects(From(objs, GetU16(objs, 0)))
         IN IF rest.ok THEN Pass(<<ExtensionObject(objs)>> \o rest.value)
            ELSE rest

\* Extensions::try_from: the objects after the 4-byte extension header
ExtensionsTryFrom(ext) == ExtensionObjects(From(ext, EXTENSION_HEADER_SIZE))

\* packet.extension().map(Extensions::try_from).transpose()
ExtensionsOf(buf) ==
    IF IcmpErrorExtension(buf).tag = "None" THEN Pass(None)
    ELSE LET ext == ExtensionsTryFrom(IcmpErrorExtension(buf).value)
         IN IF ext.ok THEN Pass(Some(ext.value)) ELSE ext

(***************************************************************************)
(* Responses (crate::probe).  The receive time is not modelled.            *)
(***************************************************************************)
ResponseSeqIcmp(identifier, sequence) ==
    [kind |-> "Icmp", identifier |-> identifier, sequence |-> sequence]

ResponseSeqUdp(identifier, dest, src_port, dest_port, checksum, payload_len, has_magic) ==
    [kind |-> "Udp", identifier |-> identifier, dest_addr |-> dest,
     src_port |-> src_port, dest_port |-> dest_port, checksum |-> checksum,
     payload_len |-> payload_len, has_magic |-> has_magic]

ResponseSeqTcp(dest, src_port, dest_port) ==
    [kind |-> "Tcp", dest_addr |-> dest, src_port |-> src_port,
     dest_port |-> dest_port]

\* the variants without an ICMP code carry NoCode, those without extensions
\* carry None
NoCode == -1

Response(variant, addr, resp_seq, code, ext) ==
    [variant |-> variant, addr |-> addr, resp_seq |-> resp_seq, code |-> code,
     ext |-> ext]

(***************************************************************************)
(* Receive.  Each ? of the source returns the error of the failed step.    *)
(***************************************************************************)
extract_echo_request(ipv4) ==
    IF Len(Ipv4Payload(ipv4)) < ICMP_MINIMUM_PACKET_SIZE
    THEN Fail("PacketTooSmall")
    ELSE Pass(Ipv4Payload(ipv4))

\* the subtraction is on u16: below 8 it panics when overflow checks are
\* compiled in and wraps around otherwise
\* a variant of extract_udp_packet that takes the length field, header
\* included, as the payload length
extract_udp_packet_WholeLength(ipv4, overflow_checks) ==
    LET nested == Ipv4Payload(ipv4)
    IN IF Len(nested) < UDP_MINIMUM_PACKET_SIZE THEN Fail("PacketTooSmall")
       ELSE IF UdpGetLength(nested) < UDP_MINIMUM_PACKET_SIZE /\ overflow_checks
       THEN Fail("Panic")
       ELSE Pass([src_port |-> UdpGetSource(nested),
                  dest_port |-> UdpGetDestination(nested),
                  checksum |-> UdpGetChecksum(nested),
                  identifier |-> Ipv4GetIdentification(ipv4),
                  payload_length |->
                      UdpGetLength(nested)])

extract_udp_packet(ipv4, overflow_checks) ==
    LET nested == Ipv4Payload(ipv4)
    IN IF Len(nested) < UDP_MINIMUM_PACKET_SIZE THEN Fail("PacketTooSmall")
       ELSE IF UdpGetLength(nested) < UDP_MINIMUM_PACKET_SIZE /\ overflow_checks
       THEN Fail("Panic")
       ELSE Pass([src_port |-> UdpGetSource(nested),
                  dest_port |-> UdpGetDestination(nested),
                  checksum |-> UdpGetChecksum(nested),
                  identifier |-> Ipv4GetIdentification(ipv4),
                  payload_length |->
                      (UdpGetLength(nested) + U16 - UDP_MINIMUM_PACKET_SIZE) % U16])

extract_tcp_packet_NoPadding(ipv4) ==
    LET nested_tcp == Ipv4Payload(ipv4)
    IN IF Len(nested_tcp) < TCP_MINIMUM_PACKET_SIZE THEN Fail("PacketTooSmall")
       ELSE Pass([src_port |-> TcpGetSource(nested_tcp),
                  dest_port |-> TcpGetDestination(nested_tcp)])

extract_tcp_packet_MinEight(ipv4) ==
    LET nested_tcp == Ipv4Payload(ipv4)
        buf == IF Len(nested_tcp) < TCP_MINIMUM_PACKET_SIZE
               THEN SetBytes(Zeros(TCP_MINIMUM_PACKET_SIZE), 0, nested_tcp)
               ELSE nested_tcp
    IN IF Len(nested_tcp) < ICMP_MINIMUM_PACKET_SIZE THEN Fail("PacketTooSmall")
       ELSE Pass([src_port |-> TcpGetSource(buf), dest_port |-> TcpGetDestination(buf)])

extract_tcp_packet(ipv4) ==
    LET nested_tcp == Ipv4Payload(ipv4)
        buf == IF Len(nested_tcp) < TCP_MINIMUM_PACKET_SIZE
               THEN SetBytes(Zeros(TCP_MINIMUM_PACKET_SIZE), 0, nested_tcp)
               ELSE nested_tcp
    IN Pass([src_port |-> TcpGetSource(buf), dest_port |-> TcpGetDestination(buf)])

\* a variant of extract_probe_resp_seq that reads the sequence of the quoted
\* echo request as the identifier and the identifier as the sequence
extract_probe_resp_seq_SwappedEcho(ipv4, protocol, overflow_checks) ==
    CASE protocol = "Icmp" /\ Ipv4GetProtocol(ipv4) = IpProtocolIcmp ->
           LET echo == extract_echo_request(ipv4)
           IN IF ~echo.ok THEN echo
              ELSE Pass(Some(ResponseSeqIcmp(EchoGetSequence(echo.value),
                                             EchoGetIdentifier(echo.value))))
      [] protocol = "Udp" /\ Ipv4GetProtocol(ipv4) = IpProtocolUdp ->
           LET udp == extract_udp_packet(ipv4, overflow_checks)
           IN IF ~udp.ok THEN udp
              ELSE Pass(Some(ResponseSeqUdp(udp.value.identifier,
                                            Ipv4GetDestination(ipv4),
                                            udp.value.src_port,
                                            udp.value.dest_port,
                                            udp.value.checksum,
                                            udp.value.payload_length, FALSE)))
      [] protocol = "Tcp" /\ Ipv4GetProtocol(ipv4) = IpProtocolTcp ->
           LET tcp == extract_tcp_packet(ipv4)
           IN IF ~tcp.ok THEN tcp
              ELSE Pass(Some(ResponseSeqTcp(Ipv4GetDestination(ipv4),
                                            tcp.value.src_port,
                                            tcp.value.dest_port)))
      [] OTHER -> Pass(None)

extract_probe_resp_seq(ipv4, protocol, overflow_checks) ==
    CASE protocol = "Icmp" /\ Ipv4GetProtocol(ipv4) = IpProtocolIcmp ->
           LET echo == extract_echo_request(ipv4)
           IN IF ~echo.ok THEN echo
              ELSE Pass(Some(ResponseSeqIcmp(EchoGetIdentifier(echo.value),
                                             EchoGetSequence(echo.value))))
      [] protocol = "Udp" /\ Ipv4GetProtocol(ipv4) = IpProtocolUdp ->
           LET udp == extract_udp_packet(ipv4, overflow_checks)
           IN IF ~udp.ok THEN udp
              ELSE Pass(Some(ResponseSeqUdp(udp.value.identifier,
                                            Ipv4GetDestination(ipv4),
                                            udp.value.src_port,
                                            udp.value.dest_port,
                                            udp.value.checksum,
                                            udp.value.payload_length, FALSE)))
      [] protocol = "Tcp" /\ Ipv4GetProtocol(ipv4) = IpProtocolTcp ->
           LET tcp == extract_tcp_packet(ipv4)
           IN IF ~tcp.ok THEN tcp
              ELSE Pass(Some(ResponseSeqTcp(Ipv4GetDestination(ipv4),
                                            tcp.value.src_port,
                                            tcp.value.dest_port)))
      [] OTHER -> Pass(None)

\* the TimeExceeded arm, once the code is TtlExpired
extract_time_exceeded(protocol, icmp_extension_mode, src, icmp_v4, overflow_checks) ==
    IF Len(icmp_v4) < ICMP_MINIMUM_PACKET_SIZE THEN Fail("PacketTooSmall")
    ELSE LET nested_ipv4 == IF icmp_extension_mode = "Enabled"
                            THEN IcmpErrorPayload(icmp_v4)
                            ELSE IcmpErrorPayloadRaw(icmp_v4)
             extension == IF icmp_extension_mode = "Enabled"
                          THEN ExtensionsOf(icmp_v4)
                          ELSE Pass(None)
         IN IF Len(nested_ipv4) < IPV4_MINIMUM_PACKET_SIZE
            THEN Fail("PacketTooSmall")
            ELSE IF ~extension.ok THEN extension
            ELSE LET resp_seq == extract_probe_resp_seq(nested_ipv4, protocol,
                                                        overflow_checks)
                 IN IF ~resp_seq.ok THEN resp_seq
                    ELSE IF resp_seq.value.tag = "None" THEN Pass(None)
                    ELSE Pass(Some(Response("TimeExceeded", src,
                                            resp_seq.value.value,
                                            IcmpGetIcmpCode(icmp_v4),
                                            extension.value)))

\* the DestinationUnreachable arm
extract_destination_unreachable_CodeZeroOnly(protocol, icmp_extension_mode, src, icmp_v4, overflow_checks) ==
    IF Len(icmp_v4) < ICMP_MINIMUM_PACKET_SIZE THEN Fail("PacketTooSmall")
    ELSE IF IcmpGetIcmpCode(icmp_v4) # 0 THEN Pass(None)
    ELSE LET nested_ipv4 == IcmpErrorPayload(icmp_v4)
             extension == IF icmp_extension_mode = "Enabled"
                          THEN ExtensionsOf(icmp_v4)
                          ELSE Pass(None)
         IN IF Len(nested_ipv4) < IPV4_MINIMUM_PACKET_SIZE
            THEN Fail("PacketTooSmall")
            ELSE IF ~extension.ok THEN extension
            ELSE LET resp_seq == extract_probe_resp_seq(nested_ipv4, protocol,
                                                        overflow_checks)
                 IN IF ~resp_seq.ok THEN resp_seq
                    ELSE IF resp_seq.value.tag = "None" THEN Pass(None)
                    ELSE Pass(Some(Response("DestinationUnreachable", src,
                                            resp_seq.value.value,
                                            IcmpGetIcmpCode(icmp_v4),
                                            extension.value)))

extract_destination_unreachable(protocol, icmp_extension_mode, src, icmp_v4, overflow_checks) ==
    IF Len(icmp_v4) < ICMP_MINIMUM_PACKET_SIZE THEN Fail("PacketTooSmall")
    ELSE LET nested_ipv4 == IcmpErrorPayload(icmp_v4)
             extension == IF icmp_extension_mode = "Enabled"
                          THEN ExtensionsOf(icmp_v4)
                          ELSE Pass(None)
         IN IF Len(nested_ipv4) < IPV4_MINIMUM_PACKET_SIZE
            THEN Fail("PacketTooSmall")
            ELSE IF ~extension.ok THEN extension
            ELSE LET resp_seq == extract_probe_resp_seq(nested_ipv4, protocol,
                                                        overflow_checks)
                 IN IF ~resp_seq.ok THEN resp_seq
                    ELSE IF resp_seq.value.tag = "None" THEN Pass(None)
                    ELSE Pass(Some(Response("DestinationUnreachable", src,
                                            resp_seq.value.value,
                                            IcmpGetIcmpCode(icmp_v4),
                                            extension.value)))

extract_echo_reply_AnyProtocol(protocol, src, icmp_v4) ==
    IF Len(icmp_v4) < ICMP_MINIMUM_PACKET_SIZE THEN Fail("PacketTooSmall")
    ELSE Pass(Some(Response("EchoReply", src,
                            ResponseSeqIcmp(EchoGetIdentifier(icmp_v4),
                                            EchoGetSequence(icmp_v4)),
                            IcmpGetIcmpCode(icmp_v4), None)))

\* the EchoReply arm
extract_echo_reply(protocol, src, icmp_v4) ==
    IF protocol = "Icmp"
    THEN IF Len(icmp_v4) < ICMP_MINIMUM_PACKET_SIZE THEN Fail("PacketTooSmall")
         ELSE Pass(Some(Response("EchoReply", src,
                                 ResponseSeqIcmp(EchoGetIdentifier(icmp_v4),
                                                 EchoGetSequence(icmp_v4)),
                                 IcmpGetIcmpCode(icmp_v4), None)))
    ELSE Pass(None)

extract_probe_resp_AnyCode(protocol, icmp_extension_mode, ipv4, overflow_checks) ==
    LET src == Ipv4GetSource(ipv4)
        icmp_v4 == Ipv4Payload(ipv4)
    IN IF Len(icmp_v4) < ICMP_MINIMUM_PACKET_SIZE THEN Fail("PacketTooSmall")
       ELSE CASE IcmpGetIcmpType(icmp_v4) = IcmpTypeTimeExceeded ->
                   extract_time_exceeded(protocol, icmp_extension_mode,
                                         src, icmp_v4, overflow_checks)
              [] IcmpGetIcmpType(icmp_v4) = IcmpTypeDestinationUnreachable ->
                   extract_destination_unreachable(protocol, icmp_extension_mode,
                                                   src, icmp_v4, overflow_checks)
              [] IcmpGetIcmpType(icmp_v4) = IcmpTypeEchoReply ->
                   extract_echo_reply(protocol, src, icmp_v4)
              [] OTHER -> Pass(None)

extract_probe_resp(protocol, icmp_extension_mode, ipv4, overflow_checks) ==
    LET src == Ipv4GetSource(ipv4)
        icmp_v4 == Ipv4Payload(ipv4)
    IN IF Len(icmp_v4) < ICMP_MINIMUM_PACKET_SIZE THEN Fail("PacketTooSmall")
       ELSE CASE IcmpGetIcmpType(icmp_v4) = IcmpTypeTimeExceeded ->
                   IF IcmpTimeExceededCodeFrom(IcmpGetIcmpCode(icmp_v4)) = "TtlExpired"
                   THEN extract_time_exceeded(protocol, icmp_extension_mode,
                                              src, icmp_v4, overflow_checks)
                   ELSE Pass(None)
              [] IcmpGetIcmpType(icmp_v4) = IcmpTypeDestinationUnreachable ->
                   extract_destination_unreachable(protocol, icmp_extension_mode,
                                                   src, icmp_v4, overflow_checks)
              [] IcmpGetIcmpType(icmp_v4) = IcmpTypeEchoReply ->
                   extract_echo_reply(protocol, src, icmp_v4)
              [] OTHER -> Pass(None)

\* what a call on a socket of the receive side returns
IoOk(v) == [kind |-> "Ok", value |-> v]
IoErr(kind) == [kind |-> kind, value |-> <<>>]

Returned(calls, res, resp) == [log |-> calls, result |-> res, response |-> resp]

recv_icmp_probe_WouldBlockSurfaced(recv_socket, protocol, icmp_extension_mode, overflow_checks) ==
    LET calls == <<SocketCall("recv", "read", NoBuf, NoAddr, 0,
                              IF recv_socket.kind = "Ok" THEN {} ELSE {"read"})>>
    IN IF recv_socket.kind = "Ok"
       THEN IF Len(recv_socket.value) < IPV4_MINIMUM_PACKET_SIZE
            THEN Returned(calls, Err("PacketTooSmall"), None)
            ELSE LET resp == extract_probe_resp(protocol, icmp_extension_mode,
                                                recv_socket.value, overflow_checks)
                 IN IF resp.ok THEN Returned(calls, Ok("none"), resp.value)
                    ELSE Returned(calls, Err(resp.err), None)
       ELSE Returned(calls, Err("IoError"), None)

\* a variant of recv_icmp_probe that remembers the datagrams it has parsed and
\* drops one it has seen before
recv_icmp_probe_DropsDuplicate(recv_socket, protocol, icmp_extension_mode, overflow_checks) ==
    LET calls == <<SocketCall("recv", "read", NoBuf, NoAddr, 0,
                              IF recv_socket.kind = "Ok" THEN {} ELSE {"read"})>>
    IN IF recv_socket.kind = "Ok"
       THEN IF \E i \in 1..Len(parsed) : parsed[i].read = recv_socket
            THEN Returned(calls, Ok("none"), None)
            ELSE IF Len(recv_socket.value) < IPV4_MINIMUM_PACKET_SIZE
            THEN Returned(calls, Err("PacketTooSmall"), None)
            ELSE LET resp == extract_probe_resp(protocol, icmp_extension_mode,
                                                recv_socket.value, overflow_checks)
                 IN IF resp.ok THEN Returned(calls, Ok("none"), resp.value)
                    ELSE Returned(calls, Err(resp.err), None)
       ELSE IF recv_socket.kind = "WouldBlock"
       THEN Returned(calls, Ok("none"), None)
       ELSE Returned(calls, Err("IoError"), None)

recv_icmp_probe(recv_socket, protocol, icmp_extension_mode, overflow_checks) ==
    LET calls == <<SocketCall("recv", "read", NoBuf, NoAddr, 0,
                              IF recv_socket.kind = "Ok" THEN {} ELSE {"read"})>>
    IN IF recv_socket.kind = "Ok"
       THEN IF Len(recv_socket.value) < IPV4_MINIMUM_PACKET_SIZE
            THEN Returned(calls, Err("PacketTooSmall"), None)
            ELSE LET resp == extract_probe_resp(protocol, icmp_extension_mode,
                                                recv_socket.value, overflow_checks)
                 IN IF resp.ok THEN Returned(calls, Ok("none"), resp.value)
                    ELSE Returned(calls, Err(resp.err), None)
       ELSE IF recv_socket.kind = "WouldBlock"
       THEN Returned(calls, Ok("none"), None)
       ELSE Returned(calls, Err("IoError"), None)

\* a call on the TCP probe socket, with the outcome the socket holds for it
TcpSocketCall(tcp_socket, op) ==
    SocketCall("caller", op, NoBuf, NoAddr, 0,
               IF tcp_socket[op].kind = "Ok" THEN {} ELSE {op})

recv_tcp_socket_ReplyFromDest(tcp_socket, src_port, dest_port, dest) ==
    LET resp_seq == ResponseSeqTcp(dest, src_port, dest_port)
        take_error == <<TcpSocketCall(tcp_socket, "take_error")>>
        peer_addr == take_error \o <<TcpSocketCall(tcp_socket, "peer_addr")>>
        shutdown == peer_addr \o <<TcpSocketCall(tcp_socket, "shutdown")>>
        icmp_error_info ==
            take_error \o <<TcpSocketCall(tcp_socket, "icmp_error_info")>>
    IN IF tcp_socket.take_error.kind # "Ok"
       THEN Returned(take_error, Err("IoError"), None)
       ELSE CASE tcp_socket.take_error.value = "None" ->
                   IF tcp_socket.peer_addr.kind # "Ok"
                   THEN Returned(peer_addr, Err("IoError"), None)
                   ELSE IF tcp_socket.peer_addr.value.tag = "None"
                   THEN Returned(peer_addr, Err("MissingAddr"), None)
                   ELSE IF tcp_socket.shutdown.kind # "Ok"
                   THEN Returned(shutdown, Err("IoError"), None)
                   ELSE Returned(shutdown, Ok("none"),
                                 Some(Response("TcpReply",
                                               dest,
                                               resp_seq, NoCode, None)))
              [] tcp_socket.take_error.value = "ConnectionRefused" ->
                   Returned(take_error, Ok("none"),
                            Some(Response("TcpRefused", dest, resp_seq, NoCode,
                                          None)))
              [] tcp_socket.take_error.value = "HostUnreachable" ->
                   IF tcp_socket.icmp_error_info.kind # "Ok"
                   THEN Returned(icmp_error_info, Err("IoError"), None)
                   ELSE Returned(icmp_error_info, Ok("none"),
                                 Some(Response("TimeExceeded",
                                               tcp_socket.icmp_error_info.value,
                                               resp_seq, 1, None)))
              [] OTHER -> Returned(take_error, Ok("none"), None)

recv_tcp_socket_PendingIsNone(tcp_socket, src_port, dest_port, dest) ==
    LET resp_seq == ResponseSeqTcp(dest, src_port, dest_port)
        take_error == <<TcpSocketCall(tcp_socket, "take_error")>>
        peer_addr == take_error \o <<TcpSocketCall(tcp_socket, "peer_addr")>>
        shutdown == peer_addr \o <<TcpSocketCall(tcp_socket, "shutdown")>>
        icmp_error_info ==
            take_error \o <<TcpSocketCall(tcp_socket, "icmp_error_info")>>
    IN IF tcp_socket.take_error.kind # "Ok"
       THEN Returned(take_error, Err("IoError"), None)
       ELSE CASE tcp_socket.take_error.value = "None" ->
                   IF tcp_socket.peer_addr.kind # "Ok"
                   THEN Returned(peer_addr, Err("IoError"), None)
                   ELSE IF tcp_socket.peer_addr.value.tag = "None"
                   THEN Returned(peer_addr, Ok("none"), None)
                   ELSE IF tcp_socket.shutdown.kind # "Ok"
                   THEN Returned(shutdown, Err("IoError"), None)
                   ELSE Returned(shutdown, Ok("none"),
                                 Some(Response("TcpReply",
                                               tcp_socket.peer_addr.value.value[1],
                                               resp_seq, NoCode, None)))
              [] tcp_socket.take_error.value = "ConnectionRefused" ->
                   Returned(take_error, Ok("none"),
                            Some(Response("TcpRefused", dest, resp_seq, NoCode,
                                          None)))
              [] tcp_socket.take_error.value = "HostUnreachable" ->
                   IF tcp_socket.icmp_error_info.kind # "Ok"
                   THEN Returned(icmp_error_info, Err("IoError"), None)
                   ELSE Returned(icmp_error_info, Ok("none"),
                                 Some(Response("TimeExceeded",
                                               tcp_socket.icmp_error_info.value,
                                               resp_seq, 1, None)))
              [] OTHER -> Returned(take_error, Ok("none"), None)

recv_tcp_socket_ShutdownBeforePeerCheck(tcp_socket, src_port, dest_port, dest) ==
    LET resp_seq == ResponseSeqTcp(dest, src_port, dest_port)
        take_error == <<TcpSocketCall(tcp_socket, "take_error")>>
        peer_addr == take_error \o <<TcpSocketCall(tcp_socket, "peer_addr")>>
        shutdown == peer_addr \o <<TcpSocketCall(tcp_socket, "shutdown")>>
        icmp_error_info ==
            take_error \o <<TcpSocketCall(tcp_socket, "icmp_error_info")>>
    IN IF tcp_socket.take_error.kind # "Ok"
       THEN Returned(take_error, Err("IoError"), None)
       ELSE CASE tcp_socket.take_error.value = "None" ->
                   IF tcp_socket.peer_addr.kind # "Ok"
                   THEN Returned(peer_addr, Err("IoError"), None)
                   ELSE IF tcp_socket.peer_addr.value.tag = "None"
                   THEN Returned(shutdown, Err("MissingAddr"), None)
                   ELSE IF tcp_socket.shutdown.kind # "Ok"
                   THEN Returned(shutdown, Err("IoError"), None)
                   ELSE Returned(shutdown, Ok("none"),
                                 Some(Response("TcpReply",
                                               tcp_socket.peer_addr.value.value[1],
                                               resp_seq, NoCode, None)))
              [] tcp_socket.take_error.value = "ConnectionRefused" ->
                   Returned(take_error, Ok("none"),
                            Some(Response("TcpRefused", dest, resp_seq, NoCode,
                                          None)))
              [] tcp_socket.take_error.value = "HostUnreachable" ->
                   IF tcp_socket.icmp_error_info.kind # "Ok"
                   THEN Returned(icmp_error_info, Err("IoError"), None)
                   ELSE Returned(icmp_error_info, Ok("none"),
                                 Some(Response("TimeExceeded",
                                               tcp_socket.icmp_error_info.value,
                                               resp_seq, 1, None)))
              [] OTHER -> Returned(take_error, Ok("none"), None)

recv_tcp_socket_RefusedShutsDown(tcp_socket, src_port, dest_port, dest) ==
    LET resp_seq == ResponseSeqTcp(dest, src_port, dest_port)
        take_error == <<TcpSocketCall(tcp_socket, "take_error")>>
        peer_addr == take_error \o <<TcpSocketCall(tcp_socket, "peer_addr")>>
        shutdown == peer_addr \o <<TcpSocketCall(tcp_socket, "shutdown")>>
        icmp_error_info ==
            take_error \o <<TcpSocketCall(tcp_socket, "icmp_error_info")>>
    IN IF tcp_socket.take_error.kind # "Ok"
       THEN Returned(take_error, Err("IoError"), None)
       ELSE CASE tcp_socket.take_error.value = "None" ->
                   IF tcp_socket.peer_addr.kind # "Ok"
                   THEN Returned(peer_addr, Err("IoError"), None)
                   ELSE IF tcp_socket.peer_addr.value.tag = "None"
                   THEN Returned(peer_addr, Err("MissingAddr"), None)
                   ELSE IF tcp_socket.shutdown.kind # "Ok"
                   THEN Returned(shutdown, Err("IoError"), None)
                   ELSE Returned(shutdown, Ok("none"),
                                 Some(Response("TcpReply",
                                               tcp_socket.peer_addr.value.value[1],
                                               resp_seq, NoCode, None)))
              [] tcp_socket.take_error.value = "ConnectionRefused" ->
                   Returned(take_error
                            \o <<TcpSocketCall(tcp_socket, "shutdown")>>,
                            Ok("none"),
                            Some(Response("TcpRefused", dest, resp_seq, NoCode,
                                          None)))
              [] tcp_socket.take_error.value = "HostUnreachable" ->
                   IF tcp_socket.icmp_error_info.kind # "Ok"
                   THEN Returned(icmp_error_info, Err("IoError"), None)
                   ELSE Returned(icmp_error_info, Ok("none"),
                                 Some(Response("TimeExceeded",
                                               tcp_socket.icmp_error_info.value,
                                               resp_seq, 1, None)))
              [] OTHER -> Returned(take_error, Ok("none"), None)

recv_tcp_socket_ShutdownIgnored(tcp_socket, src_port, dest_port, dest) ==
    LET resp_seq == ResponseSeqTcp(dest, src_port, dest_port)
        take_error == <<TcpSocketCall(tcp_socket, "take_error")>>
        peer_addr == take_error \o <<TcpSocketCall(tcp_socket, "peer_addr")>>
        shutdown == peer_addr \o <<TcpSocketCall(tcp_socket, "shutdown")>>
        icmp_error_info ==
            take_error \o <<TcpSocketCall(tcp_socket, "icmp_error_info")>>
    IN IF tcp_socket.take_error.kind # "Ok"
       THEN Returned(take_error, Err("IoError"), None)
       ELSE CASE tcp_socket.take_error.value = "None" ->
                   IF tcp_socket.peer_addr.kind # "Ok"
                   THEN Returned(peer_addr, Err("IoError"), None)
                   ELSE IF tcp_socket.peer_addr.value.tag = "None"
                   THEN Returned(peer_addr, Err("MissingAddr"), None)
                   ELSE Returned(shutdown, Ok("none"),
                                 Some(Response("TcpReply",
                                               tcp_socket.peer_addr.value.value[1],
                                               resp_seq, NoCode, None)))
              [] tcp_socket.take_error.value = "ConnectionRefused" ->
                   Returned(take_error, Ok("none"),
                            Some(Response("TcpRefused", dest, resp_seq, NoCode,
                                          None)))
              [] tcp_socket.take_error.value = "HostUnreachable" ->
                   IF tcp_socket.icmp_error_info.kind # "Ok"
                   THEN Returned(icmp_error_info, Err("IoError"), None)
                   ELSE Returned(icmp_error_info, Ok("none"),
                                 Some(Response("TimeExceeded",
                                               tcp_socket.icmp_error_info.value,
                                               resp_seq, 1, None)))
              [] OTHER -> Returned(take_error, Ok("none"), None)

recv_tcp_socket(tcp_socket, src_port, dest_port, dest) ==
    LET resp_seq == ResponseSeqTcp(dest, src_port, dest_port)
        take_error == <<TcpSocketCall(tcp_socket, "take_error")>>
        peer_addr == take_error \o <<TcpSocketCall(tcp_socket, "peer_addr")>>
        shutdown == peer_addr \o <<TcpSocketCall(tcp_socket, "shutdown")>>
        icmp_error_info ==
            take_error \o <<TcpSocketCall(tcp_socket, "icmp_error_info")>>
    IN IF tcp_socket.take_error.kind # "Ok"
       THEN Returned(take_error, Err("IoError"), None)
       ELSE CASE tcp_socket.take_error.value = "None" ->
                   IF tcp_socket.peer_addr.kind # "Ok"
                   THEN Returned(peer_addr, Err("IoError"), None)
                   ELSE IF tcp_socket.peer_addr.value.tag = "None"
                   THEN Returned(peer_addr, Err("MissingAddr"), None)
                   ELSE IF tcp_socket.shutdown.kind # "Ok"
                   THEN Returned(shutdown, Err("IoError"), None)
                   ELSE Returned(shutdown, Ok("none"),
                                 Some(Response("TcpReply",
                                               tcp_socket.peer_addr.value.value[1],
                                               resp_seq, NoCode, None)))
              [] tcp_socket.take_error.value = "ConnectionRefused" ->
                   Returned(take_error, Ok("none"),
                            Some(Response("TcpRefused", dest, resp_seq, NoCode,
                                          None)))
              [] tcp_socket.take_error.value = "HostUnreachable" ->
                   IF tcp_socket.icmp_error_info.kind # "Ok"
                   THEN Returned(icmp_error_info, Err("IoError"), None)
                   ELSE Returned(icmp_error_info, Ok("none"),
                                 Some(Response("TimeExceeded",
                                               tcp_socket.icmp_error_info.value,
                                               resp_seq, 1, None)))
              [] OTHER -> Returned(take_error, Ok("none"), None)

(***************************************************************************)
(* The inputs explored.                                                    *)
(***************************************************************************)
PacketSizes ==
    {0, U16 - 1}
    \cup ((MIN_PACKET_SIZE_ICMP - 1)..(MIN_PACKET_SIZE_ICMP + MaxExtraPayload))
    \cup ((MAX_PACKET_SIZE - 1)..(MAX_PACKET_SIZE + 1))

TraceIds == {1234, 33000}
Sequences == {0, 33000, U16 - 1}
TimeToLives == {1, 10}
PayloadPatterns == {0, 255}
FlagSets == 0..(PARIS_CHECKSUM + DUBLIN_IPV6_PAYLOAD_LENGTH)
ByteOrders == {"Network", "Host"}
PrivilegeModes == {"Privileged", "Unprivileged"}
TypesOfService == {0, 184}
\* the socket operations each dispatch function can reach; the socket either
\* works or fails in one of them
IcmpSocketOps == {"send_to"}
UdpRawSocketOps == {"send_to"}
UdpNonRawSocketOps == {"new_udp_send_socket_ipv4", "bind", "set_ttl", "send_to"}
TcpSocketOps == {"new_stream_socket_ipv4", "bind", "set_ttl", "set_tos", "connect"}
Failures(ops) == {{}} \cup {{op} : op \in ops}

Probes ==
    [sequence : Sequences, identifier : TraceIds, src_port : {123},
     dest_port : {456}, ttl : TimeToLives, flags : FlagSets]

NoCall == [fn |-> "none", privilege_mode |-> "none", tos |-> 0, fails |-> {}]

(***************************************************************************)
(* The datagrams the network delivers to the receive socket: an ICMP       *)
(* message in an IPv4 datagram, an error message quoting the start of a    *)
(* probe, possibly cut short, possibly followed by an extension structure. *)
(***************************************************************************)
LocalAddr == <<192, 168, 1, 21>>
RouterAddr == <<142, 250, 61, 129>>
TargetAddr == <<142, 250, 204, 142>>

\* an IPv4 header without options in front of payload
Ipv4Datagram(protocol, identification, src, dest, payload) ==
    <<69, 0>> \o ToBeBytes(IPV4_MINIMUM_PACKET_SIZE + Len(payload))
    \o ToBeBytes(identification) \o <<64, 0, 1, protocol, 0, 0>>
    \o src \o dest \o payload

IcmpMessage(icmp_type, code, length, body) ==
    LET buf == <<icmp_type, code, 0, 0, 0, length, 0, 0>> \o body
    IN SetU16(buf, 2, icmp_ipv4_checksum(buf))

\* the transport header of the quoted probe and four bytes after it
QuotedEcho == <<8, 0, 1, 17, 117, 215, 129, 23, 170, 170, 170, 170>>
QuotedUdp(length) ==
    ToBeBytes(31829) \o ToBeBytes(33030) \o ToBeBytes(length)
    \o <<228, 203, 170, 170, 170, 170>>
QuotedTcp ==
    ToBeBytes(33021) \o ToBeBytes(80)
    \o <<17, 34, 51, 68, 85, 102, 119, 136, 80, 2, 255, 255, 153, 170, 0, 0,
         187, 187, 187, 187>>
QuotedOther == <<1, 2, 3, 4, 5, 6, 7, 8, 9, 10, 11, 12>>

IpProtocolGre == 47
QuotedUdpLength == 64

Quoted(protocol, udp_length) ==
    CASE protocol = IpProtocolIcmp -> QuotedEcho
      [] protocol = IpProtocolUdp -> QuotedUdp(udp_length)
      [] protocol = IpProtocolTcp -> QuotedTcp
      [] OTHER -> QuotedOther

Take(s, n) == SubSeq(s, 1, IF n < Len(s) THEN n ELSE Len(s))

\* the quoted probe: its IPv4 header and the first n bytes that followed it
QuotedDatagram(protocol, n, udp_length) ==
    Ipv4Datagram(protocol, 36969, LocalAddr, TargetAddr,
                 Take(Quoted(protocol, udp_length), n))

\* an extension structure: the header {version 2, checksum} and one object
ExtensionStructure(objects, checksum_error) ==
    LET buf == <<32, 0, 0, 0>> \o objects
    IN SetU16(buf, 2, (icmp_ipv4_checksum(buf) + checksum_error) % U16)

MplsObject == <<0, 8, 1, 1, 1, 226, 65, 1>>
OpaqueObject == <<0, 8, 2, 1, 1, 2, 3, 4>>
\* an MPLS object whose body is half a label entry
MalformedObject == <<0, 6, 1, 1, 1, 226>>

ExtensionKinds == {"Mpls", "Opaque", "BadChecksum", "Malformed", "Absent"}

ExtensionBytes(kind) ==
    CASE kind = "Mpls" -> ExtensionStructure(MplsObject, 0)
      [] kind = "Opaque" -> ExtensionStructure(OpaqueObject, 0)
      [] kind = "BadChecksum" -> ExtensionStructure(MplsObject, 1)
      [] kind = "Malformed" -> ExtensionStructure(MalformedObject, 0)
      [] OTHER -> <<>>

PadTo(s, n) == IF Len(s) < n THEN s \o Zeros(n - Len(s)) ELSE s

\* a plain ICMP message around a quoted probe
PlainDatagram(icmp_type, code, protocol, n, udp_length) ==
    Ipv4Datagram(IpProtocolIcmp, 0, RouterAddr, LocalAddr,
                 IcmpMessage(icmp_type, code, 0,
                             QuotedDatagram(protocol, n, udp_length)))

\* an ICMP error whose quoted probe is padded to 128 bytes and followed by an
\* extension structure
ExtendedDatagram(icmp_type, code, protocol, length, kind) ==
    Ipv4Datagram(IpProtocolIcmp, 0, RouterAddr, LocalAddr,
                 IcmpMessage(icmp_type, code, length,
                             PadTo(QuotedDatagram(protocol, MaxQuoted, QuotedUdpLength),
                                   ICMP_ORIG_DATAGRAM_MIN_LENGTH)
                             \o ExtensionBytes(kind)))

IcmpErrorTypes == {IcmpTypeDestinationUnreachable, IcmpTypeTimeExceeded}
IcmpOtherTypes == {IcmpTypeEchoReply, IcmpTypeEchoRequest, 5}
IcmpCodes == {0, 1, 10}
QuotedProtocols == {IpProtocolIcmp, IpProtocolTcp, IpProtocolUdp, IpProtocolGre}
UdpLengths == {0, 7, 8, 9, QuotedUdpLength}
ExtensionLengths == {0, ICMP_ORIG_DATAGRAM_MIN_LENGTH \div 4}

PlainDatagrams ==
    {PlainDatagram(t, c, p, n, QuotedUdpLength) :
        t \in IcmpErrorTypes, c \in IcmpCodes, p \in QuotedProtocols,
        n \in 0..MaxQuoted}
    \cup {PlainDatagram(t, c, IpProtocolUdp, n, l) :
        t \in IcmpErrorTypes, c \in {0, 1}, n \in {UDP_MINIMUM_PACKET_SIZE},
        l \in UdpLengths}
    \cup {PlainDatagram(t, c, IpProtocolIcmp, n, QuotedUdpLength) :
        t \in IcmpOtherTypes, c \in {0, 1}, n \in {0, ICMP_MINIMUM_PACKET_SIZE}}

\* every proper prefix of a datagram that quotes a whole transport header
TruncatedDatagrams ==
    {Take(PlainDatagram(t, c, p, MaxQuoted, QuotedUdpLength), n) :
        t \in IcmpErrorTypes \cup {IcmpTypeEchoReply}, c \in {0, 1},
        p \in {IpProtocolIcmp, IpProtocolUdp},
        n \in 0..(2 * IPV4_MINIMUM_PACKET_SIZE + ICMP_MINIMUM_PACKET_SIZE)}

ExtendedDatagrams ==
    {ExtendedDatagram(t, c, p, l, k) :
        t \in IcmpErrorTypes, c \in IcmpCodes,
        p \in {IpProtocolIcmp, IpProtocolTcp, IpProtocolUdp},
        l \in ExtensionLengths, k \in ExtensionKinds}

Datagrams == PlainDatagrams \cup TruncatedDatagrams \cup ExtendedDatagrams

\* what the next read of the receive socket returns: nothing is pending, the
\* read fails, or a datagram
RecvSockets ==
    {<<>>, <<IoErr("Other")>>} \cup {<<IoOk(d)>> : d \in Datagrams}

Protocols == {"Icmp", "Udp", "Tcp"}
IcmpExtensionParseModes == {"Enabled", "Disabled"}

\* the TCP probe socket: the outcome it holds for each call, and whether it
\* is still open
PeerAddr == <<9, 9, 9, 9>>
NoSocketAddr == [tag |-> "None", value |-> SocketAddr(<<>>, 0)]
TakeErrors ==
    [kind : {"Ok"},
     value : {"None", "ConnectionRefused", "HostUnreachable", "Other"}]
    \cup [kind : {"Other"}, value : {"None"}]
PeerAddrs ==
    {[kind |-> "Other", value |-> NoSocketAddr], IoOk(NoSocketAddr),
     IoOk(Some(SocketAddr(PeerAddr, 456)))}
Shutdowns == {IoErr("Other"), IoOk(<<>>)}
IcmpErrorInfos == {IoErr("Other"), IoOk(RouterAddr)}

TcpSockets ==
    [take_error : TakeErrors, peer_addr : PeerAddrs, shutdown : Shutdowns,
     icmp_error_info : IcmpErrorInfos, open : {TRUE}]

NoTcpSocket ==
    [take_error |-> IoOk("Other"), peer_addr |-> IoOk(NoSocketAddr),
     shutdown |-> IoOk(<<>>), icmp_error_info |-> IoErr("Other"),
     open |-> FALSE]

\* the probes whose TCP socket is polled
TcpProbes ==
    [sequence : {33000}, identifier : {1234}, src_port : {123, 33000},
     dest_port : {80, 456}, ttl : {1}, flags : {0}]

\* the probe in flight while the receive socket is polled
RecvProbe ==
    [sequence |-> 33000, identifier |-> 1234, src_port |-> 123,
     dest_port |-> 456, ttl |-> 1, flags |-> 0]

(***************************************************************************)
(* The state machine.                                                      *)
(***************************************************************************)
\* a dispatch is due: nothing is pending on the receive side
InitDispatch ==
    /\ probe \in Probes
    /\ src_addr = <<1, 2, 3, 4>>
    /\ dest_addr = <<5, 6, 7, 8>>
    /\ packet_size \in PacketSizes
    /\ payload_pattern \in PayloadPatterns
    /\ ipv4_byte_order \in ByteOrders
    /\ icmp_recv_socket = <<>>
    /\ tracing_protocol = "Icmp"
    /\ extension_mode = "Disabled"
    /\ tcp_probe_socket = NoTcpSocket
    /\ overflow_checked = FALSE
    /\ pc = "ready"

\* a poll of the receive socket is due
InitRecvIcmp ==
    /\ probe = RecvProbe
    /\ src_addr = LocalAddr
    /\ dest_addr = TargetAddr
    /\ packet_size = MIN_PACKET_SIZE_ICMP
    /\ payload_pattern = 0
    /\ ipv4_byte_order = "Network"
    /\ icmp_recv_socket \in RecvSockets
    /\ tracing_protocol \in Protocols
    /\ extension_mode \in IcmpExtensionParseModes
    /\ tcp_probe_socket = NoTcpSocket
    /\ overflow_checked \in BOOLEAN
    /\ pc = "recv_icmp"

\* a poll of the socket of a TCP probe is due
InitRecvTcp ==
    /\ probe \in TcpProbes
    /\ src_addr = LocalAddr
    /\ dest_addr \in {TargetAddr, PeerAddr}
    /\ packet_size = MIN_PACKET_SIZE_ICMP
    /\ payload_pattern = 0
    /\ ipv4_byte_order = "Network"
    /\ icmp_recv_socket = <<>>
    /\ tracing_protocol = "Tcp"
    /\ extension_mode = "Disabled"
    /\ tcp_probe_socket \in TcpSockets
    /\ overflow_checked = FALSE
    /\ pc = "recv_tcp"

\* no call has been made yet
NothingReturned ==
    /\ parsed = <<>>
    /\ read = IoErr("none")
    /\ call = NoCall
    /\ log = <<>>
    /\ result = Err("none")
    /\ response = None

Init ==
    /\ InitDispatch \/ InitRecvIcmp \/ InitRecvTcp
    /\ NothingReturned

Return(fn, privilege_mode, tos, fails, out) ==
    /\ pc' = "done"
    /\ call' = [fn |-> fn, privilege_mode |-> privilege_mode, tos |-> tos,
                fails |-> fails]
    /\ log' = out.log
    /\ result' = out.result
    /\ response' = None
    /\ UNCHANGED <<inputs, icmp_recv_socket, tcp_probe_socket, read, parsed>>

\* the return of a receive function
ReturnResponse(fn, out) ==
    /\ pc' = "done"
    /\ call' = [NoCall EXCEPT !.fn = fn]
    /\ log' = out.log
    /\ result' = out.result
    /\ response' = out.response
    /\ UNCHANGED inputs

DispatchIcmp ==
    /\ pc = "ready"
    /\ \E fails \in Failures(IcmpSocketOps) :
         Return("dispatch_icmp_probe", "none", 0, fails,
                dispatch_icmp_probe(probe, src_addr, dest_addr, packet_size,
                                    payload_pattern, ipv4_byte_order, fails))

DispatchUdp ==
    /\ pc = "ready"
    /\ \E mode \in PrivilegeModes :
       \E fails \in Failures(IF mode = "Privileged" THEN UdpRawSocketOps
                                                    ELSE UdpNonRawSocketOps) :
         Return("dispatch_udp_probe", mode, 0, fails,
                dispatch_udp_probe(probe, src_addr, dest_addr, mode, packet_size,
                                   payload_pattern, ipv4_byte_order, fails))

DispatchTcp ==
    /\ pc = "ready"
    /\ \E tos \in TypesOfService, fails \in Failures(TcpSocketOps) :
         Return("dispatch_tcp_probe", "none", tos, fails,
                dispatch_tcp_probe(probe, src_addr, dest_addr, tos, fails))

\* Socket::read into a buffer of size bytes: the datagram, cut to the buffer
ReadInto(pending, size) ==
    IF pending.kind = "Ok" THEN IoOk(Take(pending.value, size)) ELSE pending

\* the read takes the first pending outcome, a datagram cut to the size of
\* the buffer; with nothing pending it would block
RecvIcmp ==
    /\ pc = "recv_icmp"
    /\ LET pending == IF icmp_recv_socket = <<>> THEN IoErr("WouldBlock")
                      ELSE ReadInto(Head(icmp_recv_socket), MAX_PACKET_SIZE)
           out == recv_icmp_probe(pending, tracing_protocol, extension_mode,
                                  overflow_checked)
       IN /\ read' = pending
          /\ icmp_recv_socket' = IF icmp_recv_socket = <<>> THEN <<>>
                                  ELSE Tail(icmp_recv_socket)
          /\ parsed' = IF pending.kind = "Ok"
                       THEN Append(parsed, [read |-> pending,
                                            result |-> out.result,
                                            response |-> out.response])
                       ELSE parsed
          /\ UNCHANGED tcp_probe_socket
          /\ ReturnResponse("recv_icmp_probe", out)

\* a successful shutdown closes the socket
RecvTcp ==
    /\ pc = "recv_tcp"
    /\ LET out == recv_tcp_socket(tcp_probe_socket, probe.src_port,
                                  probe.dest_port, dest_addr)
       IN /\ tcp_probe_socket' =
                 [tcp_probe_socket EXCEPT !.open =
                     ~(\E i \in 1..Len(out.log) :
                          out.log[i].op = "shutdown" /\ out.log[i].ok)]
          /\ UNCHANGED <<icmp_recv_socket, read, parsed>>
          /\ ReturnResponse("recv_tcp_socket", out)

Next == DispatchIcmp \/ DispatchUdp \/ DispatchTcp \/ RecvIcmp \/ RecvTcp

Spec == Init /\ [][Next]_vars

(***************************************************************************)
(* Replies delivered more than once.  The caller makes one call after the  *)
(* other, in any order; the receive socket holds a reply, another one and  *)
(* the first reply again.                                                  *)
(***************************************************************************)
OtherReply == PlainDatagram(IcmpTypeEchoReply, 0, IpProtocolIcmp,
                            ICMP_MINIMUM_PACKET_SIZE, QuotedUdpLength)

ReplayDatagrams ==
    {PlainDatagram(t, 0, p, UDP_MINIMUM_PACKET_SIZE, l) :
        t \in IcmpErrorTypes, p \in {IpProtocolIcmp, IpProtocolUdp},
        l \in {UDP_MINIMUM_PACKET_SIZE - 1, QuotedUdpLength}}
    \cup {PlainDatagram(IcmpTypeTimeExceeded, c, IpProtocolTcp, 3, QuotedUdpLength) :
        c \in {0, 1}}
    \cup {ExtendedDatagram(IcmpTypeTimeExceeded, 0, IpProtocolUdp, 0, k) :
        k \in {"Mpls", "Malformed"}}
    \cup {Take(OtherReply, IPV4_MINIMUM_PACKET_SIZE + 2)}

ReplayQueues == {<<IoOk(d), IoOk(OtherReply), IoOk(d)>> : d \in ReplayDatagrams}

\* a TCP probe socket whose calls all succeed: connected, or refused
ReplayTcpSockets ==
    {s \in TcpSockets :
        /\ s.take_error \in {IoOk("None"), IoOk("ConnectionRefused")}
        /\ s.peer_addr.kind = "Ok" /\ s.peer_addr.value.tag = "Some"
        /\ s.shutdown.kind = "Ok"
        /\ s.icmp_error_info.kind = "Ok"}

InitReplay ==
    /\ probe = RecvProbe
    /\ src_addr = LocalAddr
    /\ dest_addr = TargetAddr
    /\ packet_size = MIN_PACKET_SIZE_ICMP
    /\ payload_pattern = 0
    /\ ipv4_byte_order = "Network"
    /\ icmp_recv_socket \in ReplayQueues
    /\ tracing_protocol \in Protocols
    /\ extension_mode \in IcmpExtensionParseModes
    /\ tcp_probe_socket \in ReplayTcpSockets
    /\ overflow_checked \in BOOLEAN
    /\ pc = "recv_icmp"
    /\ NothingReturned

\* the caller has taken the value returned and makes its next call; there is
\* none after a panic, and a closed socket is not polled
Schedule ==
    /\ pc = "done"
    /\ result.tag # "Panic"
    /\ \E due \in {"ready", "recv_icmp", "recv_tcp"} :
         /\ due = "recv_tcp" => tcp_probe_socket.open
         /\ pc' = due
    /\ read' = IoErr("none")
    /\ call' = NoCall
    /\ log' = <<>>
    /\ result' = Err("none")
    /\ response' = None
    /\ UNCHANGED <<inputs, icmp_recv_socket, tcp_probe_socket, parsed>>

NextReplay ==
    DispatchIcmp \/ DispatchUdp \/ DispatchTcp \/ RecvIcmp \/ RecvTcp \/ Schedule

SpecReplay == InitReplay /\ [][NextReplay]_vars

(***************************************************************************)
(* The round trip.  A probe is dispatched on the raw socket in network     *)
(* byte order; a router answers with an ICMP error that quotes the bytes   *)
(* sent, from the IPv4 header plus 8 bytes up to the whole datagram; the   *)
(* receive socket is polled.                                               *)
(***************************************************************************)
\* a payload byte that reads as version 2 of an extension header, and a packet
\* size whose payload beyond the 128th byte of the datagram then carries a
\* checksum that verifies
ExtensionLikePattern == EXTENSION_VERSION * 16 + EXTENSION_VERSION
ExtensionLikeSize == ICMP_ORIG_DATAGRAM_MIN_LENGTH + 2 * 15

EchoPacketSizes ==
    ((MIN_PACKET_SIZE_ICMP - 1)..(MIN_PACKET_SIZE_ICMP + MaxEchoExtraPayload))
    \cup {ExtensionLikeSize}
    \cup (MAX_PACKET_SIZE..(MAX_PACKET_SIZE + 1))

EchoPayloadPatterns == PayloadPatterns \cup {ExtensionLikePattern}

\* the errors a router answers with: {type, code}
EchoedErrors ==
    {<<IcmpTypeTimeExceeded, 0>>, <<IcmpTypeDestinationUnreachable, 1>>}

\* how much of a datagram a router quotes
EchoedLengths(sent) ==
    {n \in {IPV4_MINIMUM_PACKET_SIZE + 8, ICMP_ORIG_DATAGRAM_MIN_LENGTH, Len(sent)} :
        n <= Len(sent)}

InitEcho ==
    /\ probe \in Probes
    /\ src_addr = LocalAddr
    /\ dest_addr = TargetAddr
    /\ packet_size \in EchoPacketSizes
    /\ payload_pattern \in EchoPayloadPatterns
    /\ ipv4_byte_order = "Network"
    /\ icmp_recv_socket = <<>>
    /\ tracing_protocol \in {"Icmp", "Udp"}
    /\ extension_mode \in IcmpExtensionParseModes
    /\ tcp_probe_socket = NoTcpSocket
    /\ overflow_checked = TRUE
    /\ pc = "ready"
    /\ NothingReturned

\* the probe of the tracing protocol is dispatched
TraceIcmp == tracing_protocol = "Icmp" /\ DispatchIcmp
TraceUdp == tracing_protocol = "Udp" /\ DispatchUdp

\* the datagram handed to send_to on the raw socket
Sent == log[Len(log)].buf

\* a router answers the probe that was sent on the raw socket
Echo ==
    /\ pc = "done"
    /\ result.tag = "Ok"
    /\ \/ call.fn = "dispatch_icmp_probe"
       \/ call.fn = "dispatch_udp_probe" /\ call.privilege_mode = "Privileged"
    /\ \E e \in EchoedErrors, n \in EchoedLengths(Sent) :
         icmp_recv_socket' =
             <<IoOk(Ipv4Datagram(IpProtocolIcmp, 0, RouterAddr, src_addr,
                                 IcmpMessage(e[1], e[2], 0, Take(Sent, n))))>>
    /\ pc' = "recv_icmp"
    /\ UNCHANGED <<inputs, tcp_probe_socket, parsed, read, call, log, result,
                   response>>

NextEcho == TraceIcmp \/ TraceUdp \/ Echo \/ RecvIcmp

SpecEcho == InitEcho /\ [][NextEcho]_vars

(***************************************************************************)
(* Helpers of the properties.                                              *)
(***************************************************************************)
Done(fn) == pc = "done" /\ call.fn = fn

ValidSize == packet_size >= 28 /\ packet_size <= 1024

\* the one's complement sum of all 16-bit words of data, carries folded
OnesComplementSum(data) == Fold(SumWords(data, -1))

\* the pseudo-header of a UDP datagram: src, dest, zero, protocol 17, length
PseudoHeader(src, dest, udp) == src \o dest \o <<0, 17>> \o ToBeBytes(Len(udp))

\* a checksum verifies when the sum over the covered bytes, the checksum
\* field included, is 0xFFFF
IcmpChecksumVerifies(icmp) == OnesComplementSum(icmp) = 65535

UdpChecksumVerifies(src, dest, udp) ==
    OnesComplementSum(PseudoHeader(src, dest, udp) \o udp) = 65535

Ipv4HeaderChecksumVerifies(packet) == OnesComplementSum(SubSeq(packet, 1, 20)) = 65535

AllEqual(bytes, b) == \A i \in 1..Len(bytes) : bytes[i] = b

WithFlags(p, f) == [p EXCEPT !.flags = f]

\* the packet of a raw dispatch: the buffer of its only send_to
RawDispatch ==
    /\ pc = "done"
    /\ ValidSize
    /\ \/ call.fn = "dispatch_icmp_probe"
       \/ call.fn = "dispatch_udp_probe" /\ call.privilege_mode = "Privileged"

Paris == FlagsContains(probe.flags, PARIS_CHECKSUM)

(***************************************************************************)
(* C1: a packet_size below 28 or above 1024 makes dispatch_icmp_probe and  *)
(* dispatch_udp_probe (either privilege mode) return InvalidPacketSize     *)
(* without any socket operation: no send_to, and no socket created, bound  *)
(* or written to.                                                          *)
(***************************************************************************)
C1_SizeRejection ==
    (/\ Done("dispatch_icmp_probe") \/ Done("dispatch_udp_probe")
     /\ ~ValidSize)
    => /\ result = Err("InvalidPacketSize")
       /\ log = <<>>

C1_Witness ==
    /\ Done("dispatch_udp_probe")
    /\ call.privilege_mode = "Unprivileged"
    /\ packet_size = 1025
    /\ result.tag = "InvalidPacketSize"

(***************************************************************************)
(* C2: for a packet_size in 28..=1024 dispatch_icmp_probe calls send_to    *)
(* exactly once, on the caller's socket, with address (dest_addr, 0) and   *)
(* packet_size bytes: an IPv4 header (version 4, IHL 5, identification 0,  *)
(* the probe's ttl, protocol 1, src, dest) and an EchoRequest (type 8,     *)
(* code 0, the probe's identifier and sequence, packet_size - 28 payload   *)
(* bytes equal to the pattern) whose ICMP checksum verifies; the call is   *)
(* the same for every value of the probe's flags.                          *)
(***************************************************************************)
C2_IcmpDispatchBytes ==
    (Done("dispatch_icmp_probe") /\ ValidSize)
    => /\ Len(log) = 1
       /\ log[1].op = "send_to"
       /\ log[1].sock = "caller"
       /\ log[1].addr = <<dest_addr, 0>>
       /\ (result.tag = "Ok") = log[1].ok
       /\ LET buf == log[1].buf
              icmp == SubSeq(buf, 21, Len(buf))
          IN /\ Len(buf) = packet_size
             /\ buf[1] \div 16 = 4
             /\ buf[1] % 16 = 5
             /\ GetU16(buf, 4) = 0
             /\ buf[9] = probe.ttl
             /\ buf[10] = 1
             /\ SubSeq(buf, 13, 16) = src_addr
             /\ SubSeq(buf, 17, 20) = dest_addr
             /\ icmp[1] = 8
             /\ icmp[2] = 0
             /\ GetU16(icmp, 4) = probe.identifier
             /\ GetU16(icmp, 6) = probe.sequence
             /\ Len(icmp) = 8 + (packet_size - 28)
             /\ AllEqual(SubSeq(icmp, 9, Len(icmp)), payload_pattern)
             /\ IcmpChecksumVerifies(icmp)
       /\ \A f \in FlagSets :
            dispatch_icmp_probe(WithFlags(probe, f), src_addr, dest_addr,
                                packet_size, payload_pattern, ipv4_byte_order,
                                call.fails).log = log

C2_Witness ==
    /\ Done("dispatch_icmp_probe")
    /\ packet_size = 31
    /\ payload_pattern = 255
    /\ probe.flags = 3
    /\ result.tag = "Ok"
    /\ Len(log) = 1

(***************************************************************************)
(* C3 (as stated): the IPv4 header of the bytes dispatch_icmp_probe sends  *)
(* carries a header checksum that verifies.                                *)
(***************************************************************************)
C3_Original ==
    (Done("dispatch_icmp_probe") /\ ValidSize /\ Len(log) = 1)
    => Ipv4HeaderChecksumVerifies(log[1].buf)

(***************************************************************************)
(* C3 (amended): the IPv4 header of the bytes dispatch_icmp_probe sends    *)
(* has its header checksum field left zero (it is never computed by the    *)
(* dispatcher); the ICMP checksum of the payload verifies.                 *)
(***************************************************************************)
C3_HeaderChecksumZero ==
    (Done("dispatch_icmp_probe") /\ ValidSize /\ Len(log) = 1)
    => /\ GetU16(log[1].buf, 10) = 0
       /\ IcmpChecksumVerifies(SubSeq(log[1].buf, 21, Len(log[1].buf)))

C3_Witness ==
    /\ Done("dispatch_icmp_probe")
    /\ packet_size = 28
    /\ ipv4_byte_order = "Network"
    /\ Len(log) = 1
    /\ log[1].ok
    /\ ~Ipv4HeaderChecksumVerifies(log[1].buf)

(***************************************************************************)
(* Helpers of the privileged UDP properties.                               *)
(***************************************************************************)
PrivilegedUdp ==
    /\ Done("dispatch_udp_probe")
    /\ call.privilege_mode = "Privileged"
    /\ ValidSize

\* the UDP datagram inside a sent IPv4 packet
UdpOf(buf) == SubSeq(buf, 21, Len(buf))

\* a UDP datagram with its checksum field and its first two payload bytes
\* exchanged
SwapChecksumAndPayload(udp) ==
    SubSeq(udp, 1, 6) \o <<udp[9], udp[10]>> \o <<udp[7], udp[8]>>
    \o SubSeq(udp, 11, Len(udp))

ZeroChecksum(udp) == SubSeq(udp, 1, 6) \o <<0, 0>> \o SubSeq(udp, 9, Len(udp))

ToggleDublin(f) ==
    IF FlagsContains(f, DUBLIN_IPV6_PAYLOAD_LENGTH)
    THEN f - DUBLIN_IPV6_PAYLOAD_LENGTH
    ELSE f + DUBLIN_IPV6_PAYLOAD_LENGTH

ByteSwap(v) == (v % 256) * 256 + (v \div 256)

(***************************************************************************)
(* C4: with PARIS_CHECKSUM set, privileged UDP dispatch sends a datagram   *)
(* whose checksum field is the probe's sequence and whose two payload      *)
(* bytes are the UDP/IPv4 checksum of the datagram that has the sequence   *)
(* as payload; exchanging checksum field and payload again gives a         *)
(* datagram whose checksum verifies over the pseudo-header.                *)
(***************************************************************************)
C4_ParisSwap ==
    (PrivilegedUdp /\ Paris)
    => /\ Len(log) = 1
       /\ LET udp == UdpOf(log[1].buf)
              restored == SwapChecksumAndPayload(udp)
          IN /\ GetU16(udp, 6) = probe.sequence
             /\ SubSeq(restored, 9, 10) = ToBeBytes(probe.sequence)
             /\ GetU16(udp, 8) =
                  65535 - OnesComplementSum(PseudoHeader(src_addr, dest_addr, restored)
                                            \o ZeroChecksum(restored))
             /\ UdpChecksumVerifies(src_addr, dest_addr, restored)

C4_Witness ==
    /\ PrivilegedUdp
    /\ Paris
    /\ probe.sequence = 33000
    /\ Len(log) = 1
    /\ log[1].ok
    /\ SubSeq(log[1].buf, 27, 30) = <<128, 232, 108, 155>>

(***************************************************************************)
(* C5: with PARIS_CHECKSUM set, privileged UDP dispatch ignores the valid  *)
(* packet_size and the payload_pattern: the payload has two bytes, the UDP *)
(* length field is 10 and the buffer sent has 30 bytes.                    *)
(***************************************************************************)
C5_ParisFixedSize ==
    (PrivilegedUdp /\ Paris)
    => /\ Len(log) = 1
       /\ Len(log[1].buf) = 30
       /\ GetU16(UdpOf(log[1].buf), 4) = 10
       /\ Len(UdpOf(log[1].buf)) - 8 = 2
       /\ \A size \in PacketSizes, pattern \in PayloadPatterns :
            (size >= 28 /\ size <= 1024)
            => dispatch_udp_probe(probe, src_addr, dest_addr, "Privileged", size,
                                  pattern, ipv4_byte_order, call.fails).log = log

C5_Witness ==
    /\ PrivilegedUdp
    /\ Paris
    /\ packet_size = 1024
    /\ payload_pattern = 255
    /\ Len(log) = 1
    /\ Len(log[1].buf) = 30

(***************************************************************************)
(* C6: without PARIS_CHECKSUM, privileged UDP dispatch with a packet_size  *)
(* in 28..=1024 calls send_to exactly once, with address (dest_addr,       *)
(* probe.dest_port) and packet_size bytes: IPv4 protocol 17 and the        *)
(* probe's ttl, the probe's UDP ports, UDP length packet_size - 20,        *)
(* packet_size - 28 payload bytes equal to the pattern, and a UDP checksum *)
(* that verifies over the pseudo-header.                                   *)
(***************************************************************************)
C6_ClassicUdpBytes ==
    (PrivilegedUdp /\ ~Paris)
    => /\ Len(log) = 1
       /\ log[1].op = "send_to"
       /\ log[1].sock = "caller"
       /\ log[1].addr = <<dest_addr, probe.dest_port>>
       /\ LET buf == log[1].buf
              udp == UdpOf(buf)
          IN /\ Len(buf) = packet_size
             /\ buf[9] = probe.ttl
             /\ buf[10] = 17
             /\ GetU16(udp, 0) = probe.src_port
             /\ GetU16(udp, 2) = probe.dest_port
             /\ GetU16(udp, 4) = packet_size - 20
             /\ Len(udp) - 8 = packet_size - 28
             /\ AllEqual(SubSeq(udp, 9, Len(udp)), payload_pattern)
             /\ UdpChecksumVerifies(src_addr, dest_addr, udp)

C6_Witness ==
    /\ PrivilegedUdp
    /\ ~Paris
    /\ packet_size = 31
    /\ payload_pattern = 255
    /\ Len(log) = 1
    /\ log[1].ok
    /\ Len(log[1].buf) = 31

(***************************************************************************)
(* C7: privileged UDP dispatch writes the probe's identifier into the IPv4 *)
(* identification field whatever the flags are, and the call is the same   *)
(* with DUBLIN_IPV6_PAYLOAD_LENGTH set or cleared.                         *)
(***************************************************************************)
C7_DublinIdentification ==
    PrivilegedUdp
    => /\ Len(log) = 1
       /\ GetU16(log[1].buf, 4) = probe.identifier
       /\ dispatch_udp_probe(WithFlags(probe, ToggleDublin(probe.flags)), src_addr,
                             dest_addr, "Privileged", packet_size, payload_pattern,
                             ipv4_byte_order, call.fails).log = log

C7_Witness ==
    /\ PrivilegedUdp
    /\ probe.identifier = 33000
    /\ FlagsContains(probe.flags, DUBLIN_IPV6_PAYLOAD_LENGTH)
    /\ Len(log) = 1
    /\ SubSeq(log[1].buf, 5, 6) = <<128, 232>>

(***************************************************************************)
(* C8: every packet sent on a raw socket (ICMP dispatch, privileged UDP    *)
(* dispatch) has flags_and_fragment_offset written as adjust_length of     *)
(* 0x4000 (Don't Fragment set, More Fragments clear, offset 0) and         *)
(* total_length as adjust_length of the buffer length, adjust_length being *)
(* the identity for the Network order and a byte swap for the Host order;  *)
(* no other byte depends on the byte order.                                *)
(***************************************************************************)
OtherOrder == IF ipv4_byte_order = "Network" THEN "Host" ELSE "Network"

RawCallWith(order) ==
    IF call.fn = "dispatch_icmp_probe"
    THEN dispatch_icmp_probe(probe, src_addr, dest_addr, packet_size,
                             payload_pattern, order, call.fails)
    ELSE dispatch_udp_probe(probe, src_addr, dest_addr, "Privileged", packet_size,
                            payload_pattern, order, call.fails)

C8_DontFragment ==
    RawDispatch
    => /\ Len(log) = 1
       /\ LET buf == log[1].buf
              flags_field == GetU16(buf, 6)
              length_field == GetU16(buf, 2)
              decoded == IF ipv4_byte_order = "Network" THEN flags_field
                         ELSE ByteSwap(flags_field)
              other == RawCallWith(OtherOrder)
          IN /\ decoded = 16384
             /\ (decoded \div 16384) % 2 = 1
             /\ (decoded \div 8192) % 2 = 0
             /\ decoded % 8192 = 0
             /\ length_field = IF ipv4_byte_order = "Network" THEN Len(buf)
                               ELSE ByteSwap(Len(buf))
             /\ Len(other.log) = 1
             /\ other.result = result
             /\ other.log[1].addr = log[1].addr
             /\ Len(other.log[1].buf) = Len(buf)
             /\ \A i \in 1..Len(buf) :
                  i \notin {3, 4, 7, 8} => other.log[1].buf[i] = buf[i]

C8_Witness ==
    /\ RawDispatch
    /\ call.fn = "dispatch_udp_probe"
    /\ ipv4_byte_order = "Host"
    /\ packet_size = 30
    /\ Len(log) = 1
    /\ SubSeq(log[1].buf, 3, 4) = <<30, 0>>
    /\ SubSeq(log[1].buf, 7, 8) = <<0, 64>>

(***************************************************************************)
(* Helpers of the socket call sequences.                                   *)
(***************************************************************************)
\* a socket call without its outcome
Step(sock, op, buf, addr, val) ==
    [sock |-> sock, op |-> op, buf |-> buf, addr |-> addr, val |-> val]

StepOf(e) == Step(e.sock, e.op, e.buf, e.addr, e.val)

\* the calls made are the first calls of expected, in its order, each once;
\* a call is followed by another only if it succeeded, and the calls end
\* before the last expected one only at a failed call
RunsInOrderUntilFailure(expected) ==
    /\ Len(log) >= 1
    /\ Len(log) <= Len(expected)
    /\ \A i \in 1..Len(log) : StepOf(log[i]) = expected[i]
    /\ \A i \in 1..(Len(log) - 1) : log[i].ok
    /\ Len(log) < Len(expected) => ~log[Len(log)].ok

AllSucceeded == \A i \in 1..Len(log) : log[i].ok

(***************************************************************************)
(* C9: unprivileged UDP dispatch never uses the caller's socket: it        *)
(* creates a datagram socket and calls, in this order and each once,       *)
(* bind((src_addr, probe.src_port)), set_ttl(probe.ttl) and                *)
(* send_to(payload, (dest_addr, probe.dest_port)), the payload being       *)
(* packet_size - 28 bytes equal to the pattern whatever the flags are; a   *)
(* failed step is the last step and makes the call return an error.        *)
(***************************************************************************)
C9_UnprivilegedUdpSteps ==
    (Done("dispatch_udp_probe") /\ call.privilege_mode = "Unprivileged" /\ ValidSize)
    => /\ RunsInOrderUntilFailure(
            << Step("new", "new_udp_send_socket_ipv4", <<>>, <<>>, 0),
               Step("new", "bind", <<>>, <<src_addr, probe.src_port>>, 0),
               Step("new", "set_ttl", <<>>, <<>>, probe.ttl),
               Step("new", "send_to", [i \in 1..(packet_size - 28) |-> payload_pattern],
                    <<dest_addr, probe.dest_port>>, 0) >>)
       /\ \A i \in 1..Len(log) : log[i].sock # "caller"
       /\ AllSucceeded => result = Ok("none")
       /\ ~AllSucceeded => result.tag \notin {"Ok", "none"}
       /\ \A f \in FlagSets :
            LET other == dispatch_udp_probe(WithFlags(probe, f), src_addr, dest_addr,
                                            "Unprivileged", packet_size,
                                            payload_pattern, ipv4_byte_order,
                                            call.fails)
            IN other.log = log /\ other.result = result

C9_Witness ==
    /\ Done("dispatch_udp_probe")
    /\ call.privilege_mode = "Unprivileged"
    /\ packet_size = 31
    /\ Paris
    /\ call.fails = {"set_ttl"}
    /\ Len(log) = 3
    /\ ~log[3].ok
    /\ result.tag = "IoError"

(***************************************************************************)
(* C10: dispatch_tcp_probe creates a stream socket and calls, in this      *)
(* order and each once, bind((src_addr, probe.src_port)),                  *)
(* set_ttl(probe.ttl), set_tos(tos) and connect((dest_addr,                *)
(* probe.dest_port)); a failed step is the last step (no connect after a   *)
(* failed bind), the socket is returned only if every step succeeded, and  *)
(* the calls are the same whatever the probe's flags are.                  *)
(***************************************************************************)
C10_TcpSteps ==
    Done("dispatch_tcp_probe")
    => /\ RunsInOrderUntilFailure(
            << Step("new", "new_stream_socket_ipv4", <<>>, <<>>, 0),
               Step("new", "bind", <<>>, <<src_addr, probe.src_port>>, 0),
               Step("new", "set_ttl", <<>>, <<>>, probe.ttl),
               Step("new", "set_tos", <<>>, <<>>, call.tos),
               Step("new", "connect", <<>>, <<dest_addr, probe.dest_port>>, 0) >>)
       /\ result.socket = "new" <=> (Len(log) = 5 /\ AllSucceeded)
       /\ result.tag = "Ok" <=> result.socket = "new"
       /\ (\E i \in 1..Len(log) : log[i].op = "bind" /\ ~log[i].ok)
            => \A i \in 1..Len(log) : log[i].op # "connect"
       /\ \A f \in FlagSets :
            LET other == dispatch_tcp_probe(WithFlags(probe, f), src_addr, dest_addr,
                                            call.tos, call.fails)
            IN other.log = log /\ other.result = result

C10_Witness ==
    /\ Done("dispatch_tcp_probe")
    /\ call.fails = {"bind"}
    /\ call.tos = 184
    /\ Len(log) = 2
    /\ log[2].op = "bind"
    /\ ~log[2].ok
    /\ result.tag = "IoError"

(***************************************************************************)
(* Helpers of the properties of the receive side.  The fields of a         *)
(* received datagram are read at their offsets on the wire: the outer IPv4 *)
(* header at 0, the ICMP header at 20, the quoted IPv4 header at 28 and    *)
(* the quoted transport header at 48.                                      *)
(***************************************************************************)
Received == read.value

ReceivedDatagram == Done("recv_icmp_probe") /\ read.kind = "Ok"

Dropped == result = Ok("none") /\ response = None

Responded == result = Ok("none") /\ response.tag = "Some"

OuterSourceOf(d) == SubSeq(d, 13, 16)
IcmpOffset == IPV4_MINIMUM_PACKET_SIZE
QuotedOffset == IcmpOffset + ICMP_MINIMUM_PACKET_SIZE
QuotedTransportOffset == QuotedOffset + IPV4_MINIMUM_PACKET_SIZE
IcmpTypeOf(d) == d[IcmpOffset + 1]
IcmpCodeOf(d) == d[IcmpOffset + 2]
QuotedIdentificationOf(d) == GetU16(d, QuotedOffset + 4)
QuotedProtocolOf(d) == d[QuotedOffset + 10]
QuotedDestinationOf(d) == SubSeq(d, QuotedOffset + 17, QuotedOffset + 20)

HasIcmpHeader(d) == Len(d) >= QuotedOffset
HasQuotedHeader(d) == Len(d) >= QuotedTransportOffset

\* the quoted datagram is looked at: a DestinationUnreachable, or a
\* TimeExceeded of code 0
IsAcceptedError(d) ==
    /\ HasIcmpHeader(d)
    /\ \/ IcmpTypeOf(d) = 3
       \/ IcmpTypeOf(d) = 11 /\ IcmpCodeOf(d) = 0

ProtocolNumber(p) ==
    CASE p = "Icmp" -> 1
      [] p = "Udp" -> 17
      [] p = "Tcp" -> 6

\* the extension structure that follows the 128 bytes of the quoted datagram
ExtensionPartOf(d) == From(d, QuotedOffset + ICMP_ORIG_DATAGRAM_MIN_LENGTH)

HasMalformedExtension(d) ==
    /\ Len(d) > QuotedOffset + ICMP_ORIG_DATAGRAM_MIN_LENGTH
    /\ ExtensionHeaderValid(ExtensionPartOf(d))
    /\ ~ExtensionsTryFrom(ExtensionPartOf(d)).ok

\* the datagram is too short at some level of the parse made for it
FailsToParse(d, p) ==
    \/ Len(d) < IcmpOffset
    \/ ~HasIcmpHeader(d)
    \/ IsAcceptedError(d) /\ ~HasQuotedHeader(d)
    \/ /\ IsAcceptedError(d)
       /\ HasQuotedHeader(d)
       /\ p \in {"Icmp", "Udp"}
       /\ QuotedProtocolOf(d) = ProtocolNumber(p)
       /\ Len(d) < QuotedTransportOffset + 8

PolledTcp == Done("recv_tcp_socket")

TcpKey == ResponseSeqTcp(dest_addr, probe.src_port, probe.dest_port)

ShutdownCalled == \E i \in 1..Len(log) : log[i].op = "shutdown"

(***************************************************************************)
(* C11: when the read of the receive socket reports WouldBlock,            *)
(* recv_icmp_probe returns Ok(None) and not an error; when the read fails  *)
(* with any other I/O error, it returns Err(IoError) and no Response.      *)
(***************************************************************************)
C11_ReadErrors ==
    Done("recv_icmp_probe") =>
        /\ read.kind = "WouldBlock" => Dropped
        /\ read.kind \notin {"Ok", "WouldBlock"} =>
               result = Err("IoError") /\ response = None

C11_Witness ==
    /\ Done("recv_icmp_probe")
    /\ read.kind = "WouldBlock"
    /\ log # <<>> /\ ~log[1].ok
    /\ Dropped

(***************************************************************************)
(* C12: a received datagram that fails to parse at any level (the outer    *)
(* IPv4 header, the ICMP header, the TimeExceeded, DestinationUnreachable  *)
(* or EchoReply view, the quoted IPv4 header, the quoted ICMP or UDP       *)
(* header too short) makes recv_icmp_probe return Ok(None), never Err.     *)
(***************************************************************************)
C12_ParseFailureDropped ==
    ReceivedDatagram /\ FailsToParse(Received, tracing_protocol) => Dropped

(***************************************************************************)
(* C13: with extension parsing enabled, a TimeExceeded or                  *)
(* DestinationUnreachable whose RFC 4884 extension body is malformed is    *)
(* dropped: recv_icmp_probe returns Ok(None), the error is not surfaced.   *)
(***************************************************************************)
C13_MalformedExtensionDropped ==
    /\ ReceivedDatagram
    /\ extension_mode = "Enabled"
    /\ HasIcmpHeader(Received)
    /\ IcmpTypeOf(Received) \in {3, 11}
    /\ HasMalformedExtension(Received)
    => Dropped

(***************************************************************************)
(* C14: a TimeExceeded datagram gives a Response only for code 0; with     *)
(* code 1 or any other non-zero code recv_icmp_probe returns Ok(None), for *)
(* every tracing protocol and extension mode, whatever the state of the    *)
(* quoted datagram, which is not parsed before the code is checked.        *)
(***************************************************************************)
C14_TimeExceededCode ==
    /\ ReceivedDatagram
    /\ HasIcmpHeader(Received)
    /\ IcmpTypeOf(Received) = 11
    => /\ IcmpCodeOf(Received) # 0 => Dropped
       /\ response.tag = "Some" => IcmpCodeOf(Received) = 0

C14_Witness ==
    /\ ReceivedDatagram
    /\ HasIcmpHeader(Received)
    /\ ~HasQuotedHeader(Received)
    /\ IcmpTypeOf(Received) = 11
    /\ IcmpCodeOf(Received) = 1
    /\ tracing_protocol = "Udp"
    /\ extension_mode = "Enabled"
    /\ Dropped

(***************************************************************************)
(* C15: for a TimeExceeded or DestinationUnreachable datagram a Response   *)
(* is produced only when the protocol of the quoted datagram is the        *)
(* tracing protocol; for each mismatching pair, and for a quoted protocol  *)
(* other than ICMP, UDP and TCP, recv_icmp_probe returns Ok(None); the     *)
(* ResponseSeq of a Response is of the tracing protocol.                   *)
(***************************************************************************)
C15_ProtocolMatch ==
    /\ ReceivedDatagram
    /\ HasQuotedHeader(Received)
    /\ IcmpTypeOf(Received) \in {3, 11}
    => /\ response.tag = "Some" =>
              /\ QuotedProtocolOf(Received) = ProtocolNumber(tracing_protocol)
              /\ response.value.resp_seq.kind = tracing_protocol
       /\ QuotedProtocolOf(Received) # ProtocolNumber(tracing_protocol) =>
              Dropped

C17_TruncatedTcp ==
    /\ ReceivedDatagram
    /\ tracing_protocol = "Tcp"
    /\ IsAcceptedError(Received)
    /\ Len(Received) >= QuotedTransportOffset + 8
    /\ Len(Received) <= QuotedTransportOffset + TCP_MINIMUM_PACKET_SIZE
    /\ QuotedProtocolOf(Received) = 6
    => /\ Responded
       /\ response.value.resp_seq =
              ResponseSeqTcp(QuotedDestinationOf(Received),
                             Received[QuotedTransportOffset + 1] * 256
                                 + Received[QuotedTransportOffset + 2],
                             Received[QuotedTransportOffset + 3] * 256
                                 + Received[QuotedTransportOffset + 4])

C17_Witness ==
    /\ ReceivedDatagram
    /\ tracing_protocol = "Tcp"
    /\ IsAcceptedError(Received)
    /\ Len(Received) = QuotedTransportOffset + 8
    /\ QuotedProtocolOf(Received) = 6
    /\ Responded
    /\ response.value.resp_seq.src_port = 33021
    /\ response.value.resp_seq.dest_port = 80

(***************************************************************************)
(* C18: when tracing UDP, the Response of an accepted TimeExceeded or      *)
(* DestinationUnreachable has the outer IPv4 source as source address and  *)
(* the key Udp{identifier = the quoted IPv4 identification, dest_addr =    *)
(* the quoted destination, src_port, dest_port and checksum of the quoted  *)
(* UDP header, payload_len = the quoted UDP length - 8, has_magic = false}.*)
(***************************************************************************)
C18_UdpResponse ==
    /\ ReceivedDatagram
    /\ tracing_protocol = "Udp"
    /\ Responded
    /\ response.value.variant \in {"TimeExceeded", "DestinationUnreachable"}
    => /\ response.value.addr = OuterSourceOf(Received)
       /\ response.value.resp_seq =
              ResponseSeqUdp(QuotedIdentificationOf(Received),
                             QuotedDestinationOf(Received),
                             GetU16(Received, QuotedTransportOffset),
                             GetU16(Received, QuotedTransportOffset + 2),
                             GetU16(Received, QuotedTransportOffset + 6),
                             GetU16(Received, QuotedTransportOffset + 4) - 8,
                             FALSE)

(***************************************************************************)
(* C19: recv_tcp_socket maps the state the socket reports to one outcome:  *)
(* no error and a peer address give TcpReply with the IP of the peer as    *)
(* source; ConnectionRefused gives TcpRefused with dest_addr as source;    *)
(* HostUnreachable gives TimeExceeded with code 1, no extensions and the   *)
(* address of icmp_error_info as source; Other(code) gives Ok(None).  The  *)
(* key is always Tcp{dest_addr, src_port, dest_port} of the arguments.     *)
(* (The socket calls made are taken to succeed.)                           *)
(***************************************************************************)
C19_TcpOutcomes ==
    PolledTcp /\ tcp_probe_socket.take_error.kind = "Ok" =>
        CASE tcp_probe_socket.take_error.value = "None"
               /\ tcp_probe_socket.peer_addr.kind = "Ok"
               /\ tcp_probe_socket.peer_addr.value.tag = "Some"
               /\ tcp_probe_socket.shutdown.kind = "Ok" ->
               /\ result = Ok("none")
               /\ response = Some(Response("TcpReply", PeerAddr, TcpKey,
                                           NoCode, None))
          [] tcp_probe_socket.take_error.value = "ConnectionRefused" ->
               /\ result = Ok("none")
               /\ response = Some(Response("TcpRefused", dest_addr, TcpKey,
                                           NoCode, None))
          [] tcp_probe_socket.take_error.value = "HostUnreachable"
               /\ tcp_probe_socket.icmp_error_info.kind = "Ok" ->
               /\ result = Ok("none")
               /\ response = Some(Response("TimeExceeded", RouterAddr, TcpKey,
                                           1, None))
          [] tcp_probe_socket.take_error.value = "Other" -> Dropped
          [] OTHER -> response.tag = "Some" => response.value.resp_seq = TcpKey

C19_Witness ==
    /\ PolledTcp
    /\ tcp_probe_socket.take_error = IoOk("None")
    /\ dest_addr # PeerAddr
    /\ Responded
    /\ response.value.variant = "TcpReply"
    /\ response.value.addr = PeerAddr
    /\ ~tcp_probe_socket.open

(***************************************************************************)
(* C20: when recv_tcp_socket inspects a socket whose connect is pending    *)
(* (take_error reports no error and no peer address is available yet), it  *)
(* returns Ok(None) and the socket stays connecting, to be polled again.   *)
(***************************************************************************)
C20_Original ==
    /\ PolledTcp
    /\ tcp_probe_socket.take_error = IoOk("None")
    /\ tcp_probe_socket.peer_addr = IoOk(NoSocketAddr)
    => Dropped /\ tcp_probe_socket.open

\* C20, as the code has it: for such a socket recv_tcp_socket returns
\* Err(MissingAddr) and no Response; shutdown is not called and the socket
\* stays open.
C20_PendingIsMissingAddr ==
    /\ PolledTcp
    /\ tcp_probe_socket.take_error = IoOk("None")
    /\ tcp_probe_socket.peer_addr = IoOk(NoSocketAddr)
    => /\ result = Err("MissingAddr")
       /\ response = None
       /\ ~ShutdownCalled
       /\ tcp_probe_socket.open

C20_Witness ==
    /\ PolledTcp
    /\ tcp_probe_socket.take_error = IoOk("None")
    /\ tcp_probe_socket.peer_addr = IoOk(NoSocketAddr)
    /\ result.tag = "MissingAddr"
    /\ Len(log) = 2
    /\ tcp_probe_socket.open

(***************************************************************************)
(* C21: when take_error reports no error but peer_addr reports that the    *)
(* socket has no peer, recv_tcp_socket returns Err(MissingAddr): no        *)
(* Response is emitted and shutdown is not called.                         *)
(***************************************************************************)
C21_MissingAddr ==
    /\ PolledTcp
    /\ tcp_probe_socket.take_error = IoOk("None")
    /\ tcp_probe_socket.peer_addr = IoOk(NoSocketAddr)
    => /\ result = Err("MissingAddr")
       /\ response = None
       /\ ~ShutdownCalled
       /\ tcp_probe_socket.open

C21_Witness ==
    /\ PolledTcp
    /\ tcp_probe_socket.take_error = IoOk("None")
    /\ tcp_probe_socket.peer_addr = IoOk(NoSocketAddr)
    /\ tcp_probe_socket.shutdown.kind = "Ok"
    /\ Len(log) = 2
    /\ log[2].op = "peer_addr" /\ log[2].ok
    /\ result = Err("MissingAddr")

\* the positions of the log at which the socket call op was made
CallsOf(op) == {i \in 1..Len(log) : log[i].op = op}

\* the outcome take_error reported
TookError(kind) == tcp_probe_socket.take_error = IoOk(kind)

(***************************************************************************)
(* C28: in recv_tcp_socket take_error is always the first socket call;     *)
(* peer_addr is queried only when take_error reported no error; shutdown   *)
(* is invoked at most once and only after a peer address was obtained;     *)
(* icmp_error_info is queried only on HostUnreachable. On the              *)
(* ConnectionRefused, HostUnreachable and Other paths neither peer_addr    *)
(* nor shutdown is called, so the socket is left open.                     *)
(***************************************************************************)
C28_SocketCallOrder ==
    PolledTcp =>
        /\ log # <<>> /\ CallsOf("take_error") = {1}
        /\ CallsOf("peer_addr") # {} => TookError("None")
        /\ Cardinality(CallsOf("shutdown")) <= 1
        /\ \A i \in CallsOf("shutdown") :
               /\ i > 1
               /\ log[i - 1].op = "peer_addr" /\ log[i - 1].ok
               /\ tcp_probe_socket.peer_addr.value.tag = "Some"
        /\ CallsOf("icmp_error_info") # {} => TookError("HostUnreachable")
        /\ \/ TookError("ConnectionRefused")
           \/ TookError("HostUnreachable")
           \/ TookError("Other")
           => /\ CallsOf("peer_addr") = {}
              /\ CallsOf("shutdown") = {}
              /\ tcp_probe_socket.open
        /\ \A i \in 1..Len(log) :
               log[i].op \in {"take_error", "peer_addr", "shutdown",
                              "icmp_error_info"}

C28_Witness ==
    /\ PolledTcp
    /\ TookError("ConnectionRefused")
    /\ tcp_probe_socket.shutdown.kind = "Ok"
    /\ tcp_probe_socket.peer_addr.kind = "Ok"
    /\ Len(log) = 1
    /\ response.tag = "Some" /\ response.value.variant = "TcpRefused"
    /\ tcp_probe_socket.open

(***************************************************************************)
(* C29: recv_tcp_socket emits a Response only if every socket call it made *)
(* succeeded: an error from take_error, peer_addr, shutdown or             *)
(* icmp_error_info is returned as Err and no Response is produced; in      *)
(* particular TcpReply is returned only after shutdown has succeeded, so a *)
(* completed handshake whose shutdown fails is an error, not a TcpReply.   *)
(***************************************************************************)
C29_ResponseOnlyOnSuccess ==
    PolledTcp =>
        /\ response.tag = "Some" => \A i \in 1..Len(log) : log[i].ok
        /\ (\E i \in 1..Len(log) : ~log[i].ok) =>
               result = Err("IoError") /\ response = None
        /\ response.tag = "Some" /\ response.value.variant = "TcpReply" =>
               \E i \in CallsOf("shutdown") : log[i].ok
        /\ /\ TookError("None")
           /\ tcp_probe_socket.peer_addr.kind = "Ok"
           /\ tcp_probe_socket.peer_addr.value.tag = "Some"
           /\ tcp_probe_socket.shutdown.kind # "Ok"
           => result = Err("IoError") /\ response = None

C29_Witness ==
    /\ PolledTcp
    /\ TookError("None")
    /\ tcp_probe_socket.peer_addr.kind = "Ok"
    /\ tcp_probe_socket.peer_addr.value.tag = "Some"
    /\ tcp_probe_socket.shutdown.kind # "Ok"
    /\ Len(log) = 3 /\ log[3].op = "shutdown" /\ ~log[3].ok
    /\ result = Err("IoError")
    /\ response = None

\* the byte at position i of d, zero past the end of d
ByteOrZero(d, i) == IF i <= Len(d) THEN d[i] ELSE 0

\* the bytes quoted after the quoted IPv4 header
QuotedPayloadLen(d) == Len(d) - QuotedTransportOffset

(***************************************************************************)
(* C30: when tracing TCP, extraction from a quoted TCP payload shorter     *)
(* than 20 bytes never fails, whatever its length: with 0 to 3 bytes the   *)
(* missing port bytes read as zero and a Tcp key, its src_port and/or      *)
(* dest_port partly or wholly 0, is still returned as Some; the datagram   *)
(* is not dropped as malformed.                                            *)
(***************************************************************************)
C30_ShortTcpPayload ==
    /\ ReceivedDatagram
    /\ tracing_protocol = "Tcp"
    /\ IsAcceptedError(Received)
    /\ HasQuotedHeader(Received)
    /\ QuotedProtocolOf(Received) = IpProtocolTcp
    /\ QuotedPayloadLen(Received) < TCP_MINIMUM_PACKET_SIZE
    => /\ Responded
       /\ response.value.resp_seq =
              ResponseSeqTcp(QuotedDestinationOf(Received),
                             ByteOrZero(Received, QuotedTransportOffset + 1) * 256
                                 + ByteOrZero(Received, QuotedTransportOffset + 2),
                             ByteOrZero(Received, QuotedTransportOffset + 3) * 256
                                 + ByteOrZero(Received, QuotedTransportOffset + 4))

C30_Witness ==
    /\ ReceivedDatagram
    /\ tracing_protocol = "Tcp"
    /\ IsAcceptedError(Received)
    /\ HasQuotedHeader(Received)
    /\ QuotedProtocolOf(Received) = IpProtocolTcp
    /\ QuotedPayloadLen(Received) = 3
    /\ Responded
    /\ response.value.resp_seq.kind = "Tcp"
    /\ response.value.resp_seq.src_port = 33021
    /\ response.value.resp_seq.dest_port = 0

\* the quoted datagram is whole enough to be parsed for protocol p and its
\* fields are ones a probe can have; the extension structure, if looked at,
\* is well formed
QuotedProbeOf(d, p, mode) ==
    /\ HasQuotedHeader(d)
    /\ QuotedProtocolOf(d) = ProtocolNumber(p)
    /\ ~FailsToParse(d, p)
    /\ p = "Udp" =>
           GetU16(d, QuotedTransportOffset + 4) >= UDP_MINIMUM_PACKET_SIZE
    /\ mode = "Enabled" => ~HasMalformedExtension(d)

(***************************************************************************)
(* C23: a DestinationUnreachable (type 3) datagram is accepted with any    *)
(* ICMP code: whenever the datagram it quotes is a probe of the tracing    *)
(* protocol, recv_icmp_probe returns Response::DestinationUnreachable with *)
(* the raw code byte unchanged (1 or 10, say), the outer IPv4 source as    *)
(* source address, and no extensions when extension parsing is disabled.   *)
(***************************************************************************)
C23_DestinationUnreachableAnyCode ==
    /\ ReceivedDatagram
    /\ HasIcmpHeader(Received)
    /\ IcmpTypeOf(Received) = IcmpTypeDestinationUnreachable
    => /\ QuotedProbeOf(Received, tracing_protocol, extension_mode) =>
              Responded
       /\ response.tag = "Some" =>
              /\ response.value.variant = "DestinationUnreachable"
              /\ response.value.code = IcmpCodeOf(Received)
              /\ response.value.addr = OuterSourceOf(Received)
              /\ extension_mode = "Disabled" => response.value.ext = None

C23_Witness ==
    /\ ReceivedDatagram
    /\ HasIcmpHeader(Received)
    /\ IcmpTypeOf(Received) = IcmpTypeDestinationUnreachable
    /\ IcmpCodeOf(Received) = 10
    /\ tracing_protocol = "Udp"
    /\ extension_mode = "Disabled"
    /\ Len(Received) > QuotedOffset + ICMP_ORIG_DATAGRAM_MIN_LENGTH
    /\ Responded
    /\ response.value.variant = "DestinationUnreachable"
    /\ response.value.code = 10
    /\ response.value.addr = RouterAddr
    /\ response.value.ext = None

\* the length field of the quoted UDP header
QuotedUdpLengthOf(d) == GetU16(d, QuotedTransportOffset + 4)

(***************************************************************************)
(* C27: for every Udp key returned by recv_icmp_probe, payload_len + 8 is  *)
(* the length field of the quoted UDP header as an exact 16-bit value: the *)
(* subtraction of the 8-byte header size never wraps around or overflows,  *)
(* for every value 0..65535 a router may echo in that field, values below  *)
(* 8 included.                                                             *)
(***************************************************************************)
C27_PayloadLenExact ==
    /\ ReceivedDatagram
    /\ tracing_protocol = "Udp"
    /\ IsAcceptedError(Received)
    /\ Len(Received) >= QuotedTransportOffset + UDP_MINIMUM_PACKET_SIZE
    /\ QuotedProtocolOf(Received) = IpProtocolUdp
    => /\ result.tag # "Panic"
       /\ response.tag = "Some" =>
              response.value.resp_seq.payload_len + UDP_MINIMUM_PACKET_SIZE
                  = QuotedUdpLengthOf(Received)

(***************************************************************************)
(* C24: the core never retries: each call of dispatch_icmp_probe or        *)
(* dispatch_udp_probe invokes send_to at most once, exactly once on        *)
(* success, and an error of send_to is returned without a second attempt;  *)
(* each call of recv_icmp_probe invokes read exactly once and returns at   *)
(* most one Response, whatever the read returns.                           *)
(***************************************************************************)
C24_NoRetry ==
    /\ Done("dispatch_icmp_probe") \/ Done("dispatch_udp_probe") =>
           /\ Cardinality(CallsOf("send_to")) <= 1
           /\ result.tag = "Ok" => Cardinality(CallsOf("send_to")) = 1
           /\ \A i \in CallsOf("send_to") :
                  /\ i = Len(log)
                  /\ ~log[i].ok => result = Err("IoError")
                  /\ log[i].ok => result.tag = "Ok"
           /\ \A i, j \in 1..Len(log) : log[i].op = log[j].op => i = j
    /\ Done("recv_icmp_probe") =>
           /\ Len(log) = 1
           /\ log[1].op = "read"
           /\ log[1].ok <=> read.kind = "Ok"
           /\ response = None \/ response.tag = "Some"
           /\ icmp_recv_socket = <<>>

C24_Witness ==
    /\ Done("dispatch_udp_probe")
    /\ call.privilege_mode = "Unprivileged"
    /\ "send_to" \in call.fails
    /\ Len(log) = 4
    /\ log[4].op = "send_to" /\ ~log[4].ok
    /\ result = Err("IoError")

EchoReceived(p) == ReceivedDatagram /\ tracing_protocol = p

\* the bytes quoted beyond the 128th read as a sound extension header whose
\* objects are malformed, and extension parsing is enabled
MistakenForExtension(d) ==
    extension_mode = "Enabled" /\ HasMalformedExtension(d)

\* different (identifier, sequence) give different Icmp keys
IcmpKeysDistinct ==
    \A p, q \in Probes :
        ResponseSeqIcmp(p.identifier, p.sequence)
            = ResponseSeqIcmp(q.identifier, q.sequence)
        => p.identifier = q.identifier /\ p.sequence = q.sequence

IcmpKeyRecovered ==
    /\ Responded
    /\ response.value.resp_seq
           = ResponseSeqIcmp(probe.identifier, probe.sequence)

(***************************************************************************)
(* C25, as stated: for every probe and valid packet_size, when the bytes   *)
(* dispatch_icmp_probe sends (network byte order) are quoted in a          *)
(* TimeExceeded (code 0) or DestinationUnreachable, even cut to the IPv4   *)
(* header plus 8 bytes, recv_icmp_probe with tracing protocol ICMP returns *)
(* a Response whose key is Icmp{identifier = probe.identifier, sequence =  *)
(* probe.sequence}; probes with different (identifier, sequence) never     *)
(* give the same key.                                                      *)
(***************************************************************************)
C25_Original ==
    /\ EchoReceived("Icmp") => IcmpKeyRecovered
    /\ IcmpKeysDistinct

(***************************************************************************)
(* C25, amended: the same, unless extension parsing is enabled and the     *)
(* payload quoted beyond the 128th byte of the probe reads as a sound      *)
(* extension header (version 2, checksum verifies) with malformed objects: *)
(* no Response is returned for such a reply.                               *)
(***************************************************************************)
C25_IcmpRoundTrip ==
    /\ EchoReceived("Icmp") /\ ~MistakenForExtension(Received) => IcmpKeyRecovered
    /\ EchoReceived("Icmp") /\ MistakenForExtension(Received) => response = None
    /\ IcmpKeysDistinct

C25_Witness ==
    /\ EchoReceived("Icmp")
    /\ IcmpTypeOf(Received) = IcmpTypeTimeExceeded
    /\ Len(Received) = QuotedTransportOffset + ICMP_MINIMUM_PACKET_SIZE
    /\ packet_size = MAX_PACKET_SIZE
    /\ probe.identifier = 33000 /\ probe.sequence = U16 - 1
    /\ IcmpKeyRecovered

UdpKeyRecovered ==
    /\ Responded
    /\ response.value.resp_seq.kind = "Udp"
    /\ response.value.resp_seq.identifier = probe.identifier
    /\ response.value.resp_seq.dest_addr = dest_addr
    /\ response.value.resp_seq.src_port = probe.src_port
    /\ response.value.resp_seq.dest_port = probe.dest_port
    /\ Paris => /\ response.value.resp_seq.checksum = probe.sequence
                /\ response.value.resp_seq.payload_len = 2
    /\ ~Paris => response.value.resp_seq.payload_len
                     = packet_size - MIN_PACKET_SIZE_UDP

\* a TimeExceeded of code 0 answers the UDP probe
UdpTimeExceededReceived ==
    /\ EchoReceived("Udp")
    /\ IcmpTypeOf(Received) = IcmpTypeTimeExceeded
    /\ IcmpCodeOf(Received) = 0

(***************************************************************************)
(* C26, as stated: when the bytes sent by the privileged dispatch_udp_probe*)
(* (network byte order) are quoted in a TimeExceeded (code 0),             *)
(* recv_icmp_probe with tracing protocol UDP returns Udp{identifier =      *)
(* probe.identifier, dest_addr = dest_addr, src_port = probe.src_port,     *)
(* dest_port = probe.dest_port}; with PARIS_CHECKSUM the recovered         *)
(* checksum is probe.sequence and payload_len is 2, and without it         *)
(* payload_len is packet_size - 28.                                        *)
(***************************************************************************)
C26_Original == UdpTimeExceededReceived => UdpKeyRecovered

(***************************************************************************)
(* C26, amended: the same, unless extension parsing is enabled and the     *)
(* payload quoted beyond the 128th byte of the probe reads as a sound      *)
(* extension header (version 2, checksum verifies) with malformed objects: *)
(* no Response is returned for such a reply.                               *)
(***************************************************************************)
C26_UdpRoundTrip ==
    /\ UdpTimeExceededReceived /\ ~MistakenForExtension(Received) =>
           UdpKeyRecovered
    /\ UdpTimeExceededReceived /\ MistakenForExtension(Received) =>
           response = None

C26_Witness ==
    /\ UdpTimeExceededReceived
    /\ Paris
    /\ probe.sequence = 33000
    /\ packet_size = MAX_PACKET_SIZE
    /\ extension_mode = "Enabled"
    /\ UdpKeyRecovered
    /\ response.value.resp_seq.checksum = 33000
    /\ response.value.resp_seq.payload_len = 2

====
